---- MODULE Spec2Model ----
(***************************************************************************)
(* Document evaluation engine of the scientific calculator.                *)
(*                                                                         *)
(* Two ScientificCalculator classes exist in the repository: the one the   *)
(* application starts (src/src/core/calculator.py, tree "core") and the    *)
(* earlier one (src/old/calculator.py, tree "old") which also segments     *)
(* the text into multi-line blocks.  Both are modelled; the variable tree  *)
(* says which program is running.                                          *)
(*                                                                         *)
(* Text is modelled as sequences of one-character strings, so that strip,  *)
(* split, startswith and the substring tests act on characters as in the   *)
(* source.  Python's eval/exec are modelled by a tokenizer, a parser and   *)
(* an evaluator for the expression and statement forms that occur in the   *)
(* documents of the model.                                                 *)
(***************************************************************************)
EXTENDS Integers, Sequences, FiniteSets, TLC

(***************************************************************************)
(* Bounds                                                                  *)
(***************************************************************************)
MaxLines == 3
MaxEdits == 1

(***************************************************************************)
(* str methods on character sequences                                      *)
(***************************************************************************)
\* Body applied to e: a local name for the value of e
With(e, Body(_)) == Body(e)

WsChars == {" ", "\t", "\n"}

IsWs(c) == c \in WsChars

RECURSIVE lstrip(_)
lstrip(s) == IF s # <<>> /\ IsWs(Head(s)) THEN lstrip(Tail(s)) ELSE s

RECURSIVE rstrip(_)
rstrip(s) == IF s # <<>> /\ IsWs(s[Len(s)]) THEN rstrip(SubSeq(s, 1, Len(s) - 1)) ELSE s

strip(s) == rstrip(lstrip(s))

startswith(s, p) == Len(s) >= Len(p) /\ SubSeq(s, 1, Len(p)) = p

endswith(s, p) == Len(s) >= Len(p) /\ SubSeq(s, Len(s) - Len(p) + 1, Len(s)) = p

\* p in s
contains(s, p) == \E i \in 1..(Len(s) - Len(p) + 1) : SubSeq(s, i, i + Len(p) - 1) = p

\* index of the first occurrence of character c in s, 0 when there is none
RECURSIVE findFrom(_, _, _)
findFrom(s, c, i) ==
    IF i > Len(s) THEN 0
    ELSE IF s[i] = c THEN i
    ELSE findFrom(s, c, i + 1)

find(s, c) == findFrom(s, c, 1)

\* s.split(c)[0]
splitHead(s, c) == IF find(s, c) = 0 THEN s ELSE SubSeq(s, 1, find(s, c) - 1)

\* s.split(c, 1)[1], for s containing c
splitRest(s, c) == SubSeq(s, find(s, c) + 1, Len(s))

\* s.split(c): the list of pieces
RECURSIVE split(_, _)
split(s, c) ==
    IF find(s, c) = 0 THEN <<s>>
    ELSE <<splitHead(s, c)>> \o split(splitRest(s, c), c)

\* the string whose characters are s
RECURSIVE str(_)
str(s) == IF s = <<>> THEN "" ELSE Head(s) \o str(Tail(s))

(***************************************************************************)
(* Values.  Every value is a record of the same shape: t is the Python     *)
(* type, v the number (0/1 for a bool), src the definition of a function   *)
(* (its name, its parameter and its body lines).                           *)
(***************************************************************************)
IntVal(n) == [t |-> "int", v |-> n, src |-> <<>>]
BoolVal(b) == [t |-> "bool", v |-> IF b THEN 1 ELSE 0, src |-> <<>>]
NoneVal == [t |-> "NoneType", v |-> 0, src |-> <<>>]
FuncVal(name, param, body) == [t |-> "function", v |-> 0, src |-> <<name, param>> \o body]
BuiltinVal(name) == [t |-> "builtin_function_or_method", v |-> 0, src |-> <<<<name>>>>]
ModuleVal(name) == [t |-> "module", v |-> 0, src |-> <<<<name>>>>]

IsNum(val) == val.t \in {"int", "bool"}

\* outcome of an evaluation: a value, or an exception of class cls with text msg
Ok(val) == [ok |-> TRUE, val |-> val, cls |-> "", msg |-> ""]
Raise(cls, msg) == [ok |-> FALSE, val |-> NoneVal, cls |-> cls, msg |-> msg]

(***************************************************************************)
(* Tokens of a line of Python                                              *)
(***************************************************************************)
Digits == <<"0", "1", "2", "3", "4", "5", "6", "7", "8", "9">>

DigitChars == {Digits[d] : d \in 1..10}

IsDigit(c) == c \in DigitChars

DigitVal(c) == (CHOOSE d \in 1..10 : Digits[d] = c) - 1

AlphaChars == {"a", "b", "c", "d", "e", "f", "g", "h", "i", "j", "k", "l", "m",
               "n", "o", "p", "q", "r", "s", "t", "u", "v", "w", "x", "y", "z",
               "E", "F", "N", "S", "T", "_"}

IsAlpha(c) == c \in AlphaChars

TwoCharOps == {<<"=", "=">>, <<"!", "=">>, <<"<", "=">>, <<">", "=">>}

OneCharOps == {"=", "<", ">", "+", "*", "(", ")", ":"}

Keywords == {"None", "True", "False", "def", "return", "if", "else", "elif", "raise",
             "for", "while", "class", "import", "from", "and", "or", "not", "in", "is",
             "lambda", "try", "except", "finally", "with", "yield", "pass"}

\* first index at or after i whose character is not part of an identifier
RECURSIVE identEnd(_, _)
identEnd(s, i) ==
    IF i <= Len(s) /\ (IsAlpha(s[i]) \/ IsDigit(s[i])) THEN identEnd(s, i + 1) ELSE i

RECURSIVE digitsEnd(_, _)
digitsEnd(s, i) == IF i <= Len(s) /\ IsDigit(s[i]) THEN digitsEnd(s, i + 1) ELSE i

RECURSIVE digitsVal(_)
digitsVal(s) == IF s = <<>> THEN 0 ELSE 10 * digitsVal(SubSeq(s, 1, Len(s) - 1)) + DigitVal(s[Len(s)])

Token(k, s, n) == [k |-> k, s |-> s, n |-> n]

RECURSIVE Tokens(_, _)
Tokens(s, i) ==
    IF i > Len(s) THEN <<>>
    ELSE IF s[i] \in {" ", "\t"} THEN Tokens(s, i + 1)
    ELSE IF s[i] = "#" THEN <<>>
    ELSE IF IsAlpha(s[i])
         THEN <<Token("name", str(SubSeq(s, i, identEnd(s, i) - 1)), 0)>> \o Tokens(s, identEnd(s, i))
    ELSE IF IsDigit(s[i])
         THEN <<Token(IF digitsEnd(s, i) <= Len(s) /\ IsAlpha(s[digitsEnd(s, i)]) THEN "bad" ELSE "num",
                      str(SubSeq(s, i, digitsEnd(s, i) - 1)),
                      digitsVal(SubSeq(s, i, digitsEnd(s, i) - 1)))>> \o Tokens(s, digitsEnd(s, i))
    ELSE IF i < Len(s) /\ SubSeq(s, i, i + 1) \in TwoCharOps
         THEN <<Token("op", str(SubSeq(s, i, i + 1)), 0)>> \o Tokens(s, i + 2)
    ELSE IF s[i] \in OneCharOps
         THEN <<Token("op", s[i], 0)>> \o Tokens(s, i + 1)
    ELSE <<Token("bad", s[i], 0)>> \o Tokens(s, i + 1)

IsOp(t, i, o) == i <= Len(t) /\ t[i].k = "op" /\ t[i].s = o

IsName(t, i) == i <= Len(t) /\ t[i].k = "name" /\ t[i].s \notin Keywords

IsKw(t, i, w) == i <= Len(t) /\ t[i].k = "name" /\ t[i].s = w

(***************************************************************************)
(* Expression parser: comparison > arithmetic > term > call > atom         *)
(***************************************************************************)
Fail == [ok |-> FALSE, ast |-> [k |-> "none"], pos |-> 0]
Done(ast, pos) == [ok |-> TRUE, ast |-> ast, pos |-> pos]

CmpOps == {"==", "!=", "<=", ">=", "<", ">"}

RECURSIVE ParseExpr(_, _), ParseCmpTail(_, _, _, _), ParseArith(_, _), ParseArithTail(_, _, _, _)
RECURSIVE ParseTerm(_, _), ParseTermTail(_, _, _, _), ParseAtom(_, _), ParsePostfix(_, _, _)

NoAst == [k |-> "none"]

\* a number, a constant, a name or a parenthesised expression
ParsePrimary(t, i) ==
    IF i > Len(t) THEN Fail
    ELSE IF t[i].k = "num" THEN Done([k |-> "num", n |-> t[i].n], i + 1)
    ELSE IF t[i].k = "name" THEN
        IF t[i].s \in {"None", "True", "False"} THEN Done([k |-> "const", s |-> t[i].s], i + 1)
        ELSE IF t[i].s \in Keywords THEN Fail
        ELSE Done([k |-> "name", s |-> t[i].s], i + 1)
    ELSE IF IsOp(t, i, "(") THEN
        With(ParseExpr(t, i + 1), LAMBDA e :
             IF e.ok /\ IsOp(t, e.pos, ")") THEN Done(e.ast, e.pos + 1) ELSE Fail)
    ELSE Fail

ParseAtom(t, i) ==
    With(ParsePrimary(t, i), LAMBDA p : IF p.ok THEN ParsePostfix(t, p.pos, p.ast) ELSE Fail)

\* the calls that follow a primary: no argument or one argument
ParsePostfix(t, i, prim) ==
    IF ~IsOp(t, i, "(") THEN Done(prim, i)
    ELSE With(IF IsOp(t, i + 1, ")") THEN [ok |-> TRUE, args |-> <<>>, pos |-> i + 1]
              ELSE With(ParseExpr(t, i + 1), LAMBDA e : [ok |-> e.ok, args |-> <<e.ast>>, pos |-> e.pos]),
              LAMBDA a :
                 IF a.ok /\ IsOp(t, a.pos, ")")
                 THEN ParsePostfix(t, a.pos + 1, [k |-> "call", f |-> prim, args |-> a.args])
                 ELSE Fail)

\* atom ("*" atom)*: the next atom is the right operand of op (the first one when op is "")
ParseTermTail(t, i, left, op) ==
    With(ParseAtom(t, i), LAMBDA a :
         IF ~a.ok THEN Fail
         ELSE With(IF op = "" THEN a.ast ELSE [k |-> "bin", op |-> op, l |-> left, r |-> a.ast],
                   LAMBDA node :
                      IF IsOp(t, a.pos, "*") THEN ParseTermTail(t, a.pos + 1, node, "*")
                      ELSE Done(node, a.pos)))

ParseTerm(t, i) == ParseTermTail(t, i, NoAst, "")

\* term ("+" term)*
ParseArithTail(t, i, left, op) ==
    With(ParseTerm(t, i), LAMBDA a :
         IF ~a.ok THEN Fail
         ELSE With(IF op = "" THEN a.ast ELSE [k |-> "bin", op |-> op, l |-> left, r |-> a.ast],
                   LAMBDA node :
                      IF IsOp(t, a.pos, "+") THEN ParseArithTail(t, a.pos + 1, node, "+")
                      ELSE Done(node, a.pos)))

ParseArith(t, i) == ParseArithTail(t, i, NoAst, "")

\* a comparison chain: the first operand, then the list of (operator, operand);
\* the next operand is the first one when op is ""
ParseCmpTail(t, i, node, op) ==
    With(ParseArith(t, i), LAMBDA a :
         IF ~a.ok THEN Fail
         ELSE With(IF op = "" THEN [k |-> "cmp", first |-> a.ast, rest |-> <<>>]
                   ELSE [node EXCEPT !.rest = @ \o <<[op |-> op, e |-> a.ast]>>],
                   LAMBDA chain :
                      IF a.pos <= Len(t) /\ t[a.pos].k = "op" /\ t[a.pos].s \in CmpOps
                      THEN ParseCmpTail(t, a.pos + 1, chain, t[a.pos].s)
                      ELSE Done(IF chain.rest = <<>> THEN chain.first ELSE chain, a.pos)))

ParseExpr(t, i) == ParseCmpTail(t, i, NoAst, "")

\* the whole token list is one expression
ParseWhole(t) ==
    With(ParseExpr(t, 1), LAMBDA e :
         IF (\A i \in 1..Len(t) : t[i].k # "bad") /\ e.ok /\ e.pos = Len(t) + 1 THEN e ELSE Fail)

(***************************************************************************)
(* Name tables (dict): functions from names to values                      *)
(***************************************************************************)
EmptyMap == [n \in {} |-> NoneVal]

Put(m, k, val) == [n \in DOMAIN m \cup {k} |-> IF n = k THEN val ELSE m[n]]

\* m.update(m2)
Update(m, m2) == [n \in DOMAIN m \cup DOMAIN m2 |-> IF n \in DOMAIN m2 THEN m2[n] ELSE m[n]]

\* del m[k]
Del(m, k) == [n \in DOMAIN m \ {k} |-> m[n]]

\* names of the builtins module that the documents of the model can mention
BuiltinNames == {"abs", "len"}

(***************************************************************************)
(* Evaluation.  env.loc and env.glob are the locals and globals handed to  *)
(* eval/exec, env.bi says whether the globals give access to the real      *)
(* builtins (false under {"__builtins__": {}}), env.ns is the dict that a  *)
(* function defined by a block has as its globals (self.namespace).        *)
(***************************************************************************)
Env(loc, glob, ns, bi) == [loc |-> loc, glob |-> glob, ns |-> ns, bi |-> bi]

Truthy(val) ==
    CASE val.t \in {"int", "bool"} -> val.v # 0
      [] val.t = "NoneType" -> FALSE
      [] OTHER -> TRUE

BinOp(op, l, r) ==
    IF IsNum(l) /\ IsNum(r)
    THEN Ok(IntVal(IF op = "+" THEN l.v + r.v ELSE l.v * r.v))
    ELSE Raise("TypeError", "unsupported operand type(s) for " \o op \o ": '" \o l.t \o "' and '" \o r.t \o "'")

Compare(op, l, r) ==
    IF op \in {"==", "!="}
    THEN LET eq == IF IsNum(l) /\ IsNum(r) THEN l.v = r.v ELSE l = r
         IN  Ok(BoolVal(IF op = "==" THEN eq ELSE ~eq))
    ELSE IF IsNum(l) /\ IsNum(r)
    THEN Ok(BoolVal(CASE op = "<=" -> l.v <= r.v
                      [] op = ">=" -> l.v >= r.v
                      [] op = "<" -> l.v < r.v
                      [] OTHER -> l.v > r.v))
    ELSE Raise("TypeError", "'" \o op \o "' not supported between instances of '" \o l.t \o "' and '" \o r.t \o "'")

\* a statement without a body: assignment, return or expression
ParseSimple(t, inFunc) ==
    With(IF IsName(t, 1) /\ IsOp(t, 2, "=") THEN "assign"
         ELSE IF IsKw(t, 1, "return") THEN "return" ELSE "expr",
         LAMBDA k :
            With(ParseWhole(SubSeq(t, CASE k = "assign" -> 3 [] k = "return" -> 2 [] OTHER -> 1, Len(t))),
                 LAMBDA e :
                    [ok |-> e.ok /\ (k = "return" => inFunc),
                     st |-> [k |-> k, name |-> IF k = "assign" THEN t[1].s ELSE "", e |-> e.ast]]))

RECURSIVE Eval(_, _), EvalCmpRest(_, _, _, _), CallValue(_, _, _), RunBody(_, _, _)

Eval(a, env) ==
    CASE a.k = "num" -> Ok(IntVal(a.n))
      [] a.k = "const" -> Ok(IF a.s = "None" THEN NoneVal ELSE BoolVal(a.s = "True"))
      [] a.k = "name" ->
            IF a.s \in DOMAIN env.loc THEN Ok(env.loc[a.s])
            ELSE IF a.s \in DOMAIN env.glob THEN Ok(env.glob[a.s])
            ELSE IF env.bi /\ a.s \in BuiltinNames THEN Ok(BuiltinVal(a.s))
            ELSE Raise("NameError", "name '" \o a.s \o "' is not defined")
      [] a.k = "bin" ->
            With(Eval(a.l, env), LAMBDA l :
                 IF ~l.ok THEN l
                 ELSE With(Eval(a.r, env), LAMBDA r :
                           IF ~r.ok THEN r ELSE BinOp(a.op, l.val, r.val)))
      [] a.k = "cmp" ->
            With(Eval(a.first, env), LAMBDA l :
                 IF ~l.ok THEN l ELSE EvalCmpRest(a.rest, 1, l.val, env))
      [] a.k = "call" ->
            With(Eval(a.f, env), LAMBDA f :
                 IF ~f.ok THEN f
                 ELSE With(IF a.args = <<>> THEN [ok |-> TRUE, vals |-> <<>>, raised |-> f]
                           ELSE With(Eval(a.args[1], env), LAMBDA x :
                                     [ok |-> x.ok, vals |-> <<x.val>>, raised |-> x]),
                           LAMBDA args :
                              IF ~args.ok THEN args.raised ELSE CallValue(f.val, args.vals, env.ns)))

\* l op1 e1 op2 e2 ...: stops at the first comparison that is false
EvalCmpRest(rest, i, l, env) ==
    With(Eval(rest[i].e, env), LAMBDA r :
         IF ~r.ok THEN r
         ELSE With(Compare(rest[i].op, l, r.val), LAMBDA c :
                   IF ~c.ok \/ i = Len(rest) \/ ~Truthy(c.val) THEN c
                   ELSE EvalCmpRest(rest, i + 1, r.val, env)))

CallValue(f, args, ns) ==
    CASE f.t = "function" ->
            IF Len(args) = 0
            THEN Raise("TypeError", str(f.src[1]) \o "() missing 1 required positional argument: '" \o str(f.src[2]) \o "'")
            ELSE RunBody(SubSeq(f.src, 3, Len(f.src)), 1, Env(str(f.src[2]) :> args[1], ns, ns, TRUE))
      [] f.t = "builtin_function_or_method" /\ Len(args) = 0 ->
            Raise("TypeError", str(f.src[1]) \o "() takes exactly one argument (0 given)")
      [] f = BuiltinVal("abs") ->
            IF IsNum(args[1]) THEN Ok(IntVal(IF args[1].v < 0 THEN 0 - args[1].v ELSE args[1].v))
            ELSE Raise("TypeError", "bad operand type for abs(): '" \o args[1].t \o "'")
      [] f = BuiltinVal("len") ->
            Raise("TypeError", "object of type '" \o args[1].t \o "' has no len()")
      [] OTHER -> Raise("TypeError", "'" \o f.t \o "' object is not callable")

\* the statements of a function body, from the i-th on; the value returned
RunBody(body, i, env) ==
    IF i > Len(body) THEN Ok(NoneVal)
    ELSE With(ParseSimple(Tokens(body[i], 1), TRUE).st, LAMBDA st :
         With(Eval(st.e, env), LAMBDA r :
              IF ~r.ok THEN r
              ELSE CASE st.k = "return" -> r
                     [] st.k = "assign" -> RunBody(body, i + 1, [env EXCEPT !.loc = Put(@, st.name, r.val)])
                     [] OTHER -> RunBody(body, i + 1, env)))

\* eval(text, {"__builtins__": {}}, namespace)
EvalLine(text, namespace) ==
    With(ParseWhole(Tokens(text, 1)), LAMBDA e :
         IF ~e.ok THEN Raise("SyntaxError", "invalid syntax")
         ELSE Eval(e.ast, Env(namespace, EmptyMap, namespace, FALSE)))

(***************************************************************************)
(* format_result, for the value kinds of the model                         *)
(***************************************************************************)
RECURSIVE NatStr(_)
NatStr(n) == IF n < 10 THEN Digits[n + 1] ELSE NatStr(n \div 10) \o Digits[(n % 10) + 1]

\* str(int)
IntStr(n) == IF n < 0 THEN "-" \o NatStr(0 - n) ELSE NatStr(n)

\* str(value) for a value that has no formatting rule of its own
\* (the address in the text of a function is left out)
GenericStr(val) == "<" \o val.t \o " " \o str(val.src[1]) \o ">"

\* a float: (-1)^neg * m * 10^e, m a natural number; neg tells -0.0 from 0.0
FloatVal(neg, m, e) == [t |-> "float", neg |-> neg, m |-> m, e |-> e]
ComplexVal(real, imag) == [t |-> "complex", real |-> real, imag |-> imag]
ListVal(items) == [t |-> "list", items |-> items]
TupleVal(items) == [t |-> "tuple", items |-> items]
\* a set, its elements in the order of iteration
SetVal(items) == [t |-> "set", items |-> items]

\* self.decimal_precision
decimal_precision == 6

\* the decimal digits of the natural number n, the most significant first
RECURSIVE DigitsOf(_)
DigitsOf(n) == IF n < 10 THEN <<n>> ELSE Append(DigitsOf(n \div 10), n % 10)

\* the natural number whose decimal digits are ds
RECURSIVE ValueOf(_)
ValueOf(ds) == IF ds = <<>> THEN 0 ELSE 10 * ValueOf(SubSeq(ds, 1, Len(ds) - 1)) + ds[Len(ds)]

\* ds without its trailing zeros, one digit at least
RECURSIVE StripZeros(_)
StripZeros(ds) ==
    IF Len(ds) > 1 /\ ds[Len(ds)] = 0 THEN StripZeros(SubSeq(ds, 1, Len(ds) - 1)) ELSE ds

Zeros(n) == [i \in 1..n |-> 0]

RECURSIVE DigitsStr(_)
DigitsStr(ds) == IF ds = <<>> THEN "" ELSE Digits[Head(ds) + 1] \o DigitsStr(Tail(ds))

RECURSIVE Pow10(_)
Pow10(k) == IF k = 0 THEN 1 ELSE 10 * Pow10(k - 1)

\* the float x as d.ddd * 10^X: its significant digits ds and the exponent X of
\* the first of them (0.0 has the one digit 0 and X = 0)
Decimal(x) ==
    [neg |-> x.neg, ds |-> StripZeros(DigitsOf(x.m)),
     X |-> IF x.m = 0 THEN 0 ELSE Len(DigitsOf(x.m)) - 1 + x.e]

\* d rounded to k significant digits, a tie going to the even digit
RoundTo(d, k) ==
    IF Len(d.ds) <= k THEN d
    ELSE With(ValueOf(SubSeq(d.ds, 1, k)), LAMBDA q :
         With(SubSeq(d.ds, k + 1, Len(d.ds)), LAMBDA rest :
         With(IF \/ rest[1] > 5
                 \/ rest[1] = 5 /\ (Len(rest) > 1 \/ q % 2 = 1)
              THEN q + 1 ELSE q, LAMBDA r :
              IF r = Pow10(k) THEN [neg |-> d.neg, ds |-> <<1>>, X |-> d.X + 1]
              ELSE [neg |-> d.neg, ds |-> StripZeros(DigitsOf(r)), X |-> d.X])))

\* the exponent of a number in scientific notation: a sign and two digits at least
ExpStr(X) ==
    IF X < 0 THEN "-" \o (IF X > -10 THEN "0" ELSE "") \o NatStr(0 - X)
    ELSE "+" \o (IF X < 10 THEN "0" ELSE "") \o NatStr(X)

SignStr(d) == IF d.neg THEN "-" ELSE ""

\* f"{x:.{p}e}"
FormatE(x, p) ==
    With(RoundTo(Decimal(x), p + 1), LAMBDA d :
         SignStr(d) \o Digits[d.ds[1] + 1]
         \o (IF p > 0 THEN "." \o DigitsStr(Tail(d.ds) \o Zeros(p + 1 - Len(d.ds))) ELSE "")
         \o "e" \o ExpStr(d.X))

\* the digits ds of a number of exponent X, 0 <= X or X < 0, in fixed notation
Fixed(ds, X) ==
    IF X < 0 THEN "0." \o DigitsStr(Zeros(0 - X - 1) \o ds)
    ELSE IF Len(ds) <= X + 1 THEN DigitsStr(ds \o Zeros(X + 1 - Len(ds)))
    ELSE DigitsStr(SubSeq(ds, 1, X + 1)) \o "." \o DigitsStr(SubSeq(ds, X + 2, Len(ds)))

\* the digits ds of a number of exponent X in scientific notation, no trailing zeros
Scientific(ds, X) ==
    Digits[ds[1] + 1] \o (IF Len(ds) > 1 THEN "." \o DigitsStr(Tail(ds)) ELSE "")
    \o "e" \o ExpStr(X)

\* f"{x:.{p}g}"
FormatG(x, p) ==
    With(IF p = 0 THEN 1 ELSE p, LAMBDA P :
    With(RoundTo(Decimal(x), P), LAMBDA d :
         SignStr(d) \o (IF d.X < -4 \/ d.X >= P THEN Scientific(d.ds, d.X) ELSE Fixed(d.ds, d.X))))

\* repr(x) of a float: the shortest digits that give x back
FloatRepr(x) ==
    With(Decimal(x), LAMBDA d :
         SignStr(d) \o (IF d.X < -4 \/ d.X >= 16 THEN Scientific(d.ds, d.X)
                        ELSE IF Len(d.ds) <= d.X + 1 THEN Fixed(d.ds, d.X) \o ".0"
                        ELSE Fixed(d.ds, d.X)))

\* the exponents of 1e10 and 1e-4
BigExponent == 10
SmallExponent == -4

\* abs(x) >= 1e10
IsBigOrEqual(x) == x.m # 0 /\ Decimal(x).X >= BigExponent

\* abs(x) > 1e10
IsBig(x) ==
    With(Decimal(x), LAMBDA d : d.X > BigExponent \/ (d.X = BigExponent /\ d.ds # <<1>>))

\* abs(x) < 1e-4 and x != 0
IsSmall(x) == x.m # 0 /\ Decimal(x).X < SmallExponent

\* the float branch of format_result
FormatFloat(x) ==
    IF IsBig(x) \/ IsSmall(x) THEN FormatE(x, decimal_precision) ELSE FormatG(x, decimal_precision)

\* the complex branch of format_result: result.imag == 0, result.real == 0,
\* result.imag >= 0 are tests on the values, true of -0.0 as of 0.0
FormatComplex(z) ==
    IF z.imag.m = 0 THEN FormatFloat(z.real)
    ELSE IF z.real.m = 0 THEN FormatG(z.imag, decimal_precision) \o "j"
    ELSE "(" \o FormatG(z.real, decimal_precision)
             \o (IF ~z.imag.neg THEN "+" ELSE "")
             \o FormatG(z.imag, decimal_precision) \o "j)"

\* a complex branch that formats a lone imaginary part as it formats a float
FormatComplexRecursive(z) ==
    IF z.imag.m = 0 THEN FormatFloat(z.real)
    ELSE IF z.real.m = 0 THEN FormatFloat(z.imag) \o "j"
    ELSE "(" \o FormatG(z.real, decimal_precision)
             \o (IF ~z.imag.neg THEN "+" ELSE "")
             \o FormatG(z.imag, decimal_precision) \o "j)"

\* the strings es joined by ", "
RECURSIVE Join(_)
Join(es) ==
    IF es = <<>> THEN ""
    ELSE IF Len(es) = 1 THEN es[1]
    ELSE es[1] \o ", " \o Join(Tail(es))

\* the lengths above which a sequence is shown by its first elements, and how many
PreviewLimit == 10
PreviewItems == 3

\* a string value
StrVal(text) == [t |-> "str", text |-> text]

\* str(result) of a value that reaches the final else of format_result
StrOf(val) == IF val.t = "str" THEN val.text ELSE GenericStr(val)

\* the length above which the text of str(result) is cut, and the cut
MaxShown == 200
Truncate(result_str) ==
    IF Len(result_str) > MaxShown THEN SubSeq(result_str, 1, MaxShown) \o "..." ELSE result_str

\* repr(value), which str of a list or of a tuple applies to the elements
RECURSIVE Repr(_)
Repr(val) ==
    CASE val.t = "NoneType" -> "None"
      [] val.t = "bool" -> (IF val.v = 1 THEN "True" ELSE "False")
      [] val.t = "int" -> IntStr(val.v)
      [] val.t = "float" -> FloatRepr(val)
      [] val.t = "list" -> "[" \o Join([i \in 1..Len(val.items) |-> Repr(val.items[i])]) \o "]"
      [] val.t = "tuple" -> "(" \o Join([i \in 1..Len(val.items) |-> Repr(val.items[i])])
                                \o (IF Len(val.items) = 1 THEN "," ELSE "") \o ")"
      [] val.t = "set" -> (IF val.items = <<>> THEN "set()"
                           ELSE "{" \o Join([i \in 1..Len(val.items) |-> Repr(val.items[i])]) \o "}")
      [] OTHER -> GenericStr(val)

\* format_result of src/old/calculator.py
RECURSIVE format_result(_)
format_result(result) ==
    IF result.t = "NoneType" THEN "None"
    ELSE IF result.t = "bool" THEN (IF result.v = 1 THEN "True" ELSE "False")
    ELSE IF result.t = "int" THEN IntStr(result.v)
    ELSE IF result.t = "float" THEN FormatFloat(result)
    ELSE IF result.t = "complex" THEN FormatComplex(result)
    ELSE IF result.t \in {"list", "tuple"}
    THEN IF Len(result.items) > PreviewLimit
         THEN "[" \o Join([i \in 1..PreviewItems |-> format_result(result.items[i])])
                  \o ", ... (" \o NatStr(Len(result.items)) \o " items)]"
         ELSE "[" \o Join([i \in 1..Len(result.items) |-> format_result(result.items[i])]) \o "]"
    ELSE IF result.t = "set"
    THEN \* a set has __iter__ and len but no slice: result[:3] raises and the
         \* except branch returns str(result) as it is
         IF Len(result.items) > PreviewLimit THEN Repr(result)
         ELSE "[" \o Join([i \in 1..Len(result.items) |-> format_result(result.items[i])]) \o "]"
    ELSE Truncate(StrOf(result))

\* format_result of src/src/core/calculator.py: the same branches but the one
\* for sequences, which fall to the cut text of str(result)
format_result_core(result) ==
    IF result.t \in {"list", "tuple", "set"} THEN Truncate(Repr(result))
    ELSE format_result(result)

(***************************************************************************)
(* compile(code_block, '<calculator>', 'exec') and exec, for blocks made   *)
(* of simple statements, def and if with bodies of simple statements.      *)
(* The text of every syntax error is abstracted to "invalid syntax".       *)
(***************************************************************************)
RECURSIVE Indent(_)
Indent(line) == IF line # <<>> /\ Head(line) = " " THEN 1 + Indent(Tail(line)) ELSE 0

\* the lines of the text that hold a statement, with their indentation
RECURSIVE LogicalLines(_)
LogicalLines(lines) ==
    IF lines = <<>> THEN <<>>
    ELSE IF Tokens(Head(lines), 1) = <<>> THEN LogicalLines(Tail(lines))
    ELSE <<[ind |-> Indent(Head(lines)), t |-> Tokens(Head(lines), 1), text |-> Head(lines)]>>
         \o LogicalLines(Tail(lines))

\* first index from i on of a line that is not indented
RECURSIVE BodyEnd(_, _)
BodyEnd(L, i) == IF i <= Len(L) /\ L[i].ind > 0 THEN BodyEnd(L, i + 1) ELSE i

\* "def <name>(<parameter>):" at the start of the tokens t
DefHead(t) ==
    /\ Len(t) >= 6
    /\ IsKw(t, 1, "def") /\ IsName(t, 2) /\ IsOp(t, 3, "(")
    /\ IsName(t, 4) /\ IsOp(t, 5, ")") /\ IsOp(t, 6, ":")

IsDefHeader(t) == Len(t) = 6 /\ DefHead(t)

\* "def <name>(<parameter>): <simple statement>" on one line
IsInlineDef(t) == Len(t) > 6 /\ DefHead(t)

\* the function an inline def at line i binds; no indented line may follow it
InlineDef(L, i, j) ==
    [ok |-> j = i + 1 /\ ParseSimple(SubSeq(L[i].t, 7, Len(L[i].t)), TRUE).ok,
     st |-> [k |-> "def", name |-> L[i].t[2].s,
             val |-> FuncVal(<<L[i].t[2].s>>, <<L[i].t[4].s>>,
                             <<strip(splitRest(L[i].text, ":"))>>)]]

\* "if <expression>:": the parse of the expression
IfHeader(t) ==
    IF Len(t) >= 3 /\ IsKw(t, 1, "if") /\ IsOp(t, Len(t), ":")
    THEN ParseWhole(SubSeq(t, 2, Len(t) - 1))
    ELSE Fail

CompileError == [ok |-> FALSE, sts |-> <<>>]

\* the statement that starts at line i and ends before line j: a def or an if
\* with its indented lines, or a simple statement
ParseStatement(L, i, j) ==
    IF IsInlineDef(L[i].t) THEN InlineDef(L, i, j) ELSE
    With(L[i].t, LAMBDA t :
    With(IsDefHeader(t), LAMBDA isDef :
    With(IF isDef THEN Fail ELSE IfHeader(t), LAMBDA cond :
         IF isDef \/ cond.ok
         THEN With([b \in 1..(j - i - 1) |-> ParseSimple(L[i + b].t, isDef)], LAMBDA body :
                   [ok |-> /\ j > i + 1
                           /\ \A b \in 1..(j - i - 1) : L[i + b].ind = L[i + 1].ind /\ body[b].ok,
                    st |-> IF isDef
                           THEN [k |-> "def", name |-> t[2].s,
                                 val |-> FuncVal(<<t[2].s>>, <<t[4].s>>,
                                                 [b \in 1..(j - i - 1) |-> L[i + b].text])]
                           ELSE [k |-> "if", e |-> cond.ast,
                                 body |-> [b \in 1..(j - i - 1) |-> body[b].st]]])
         ELSE ParseSimple(t, FALSE))))

RECURSIVE ParseTop(_, _)
ParseTop(L, i) ==
    IF i > Len(L) THEN [ok |-> TRUE, sts |-> <<>>]
    ELSE IF L[i].ind # 0 THEN CompileError
    ELSE With(BodyEnd(L, i + 1), LAMBDA j :
         With(ParseStatement(L, i, j), LAMBDA s :
         With(ParseTop(L, j), LAMBDA rest :
              IF ~s.ok \/ ~rest.ok THEN CompileError
              ELSE [ok |-> TRUE, sts |-> <<s.st>> \o rest.sts])))

\* exec(compiled_code, namespace, local_ns): the statements from the i-th on
ExecOk(loc) == [ok |-> TRUE, loc |-> loc, cls |-> "", msg |-> ""]
ExecRaise(r) == [ok |-> FALSE, loc |-> EmptyMap, cls |-> r.cls, msg |-> r.msg]

RECURSIVE ExecStmts(_, _, _, _)
ExecStmts(sts, i, loc, ns) ==
    IF i > Len(sts) THEN ExecOk(loc)
    ELSE With(sts[i], LAMBDA st :
         IF st.k = "def" THEN ExecStmts(sts, i + 1, Put(loc, st.name, st.val), ns)
         ELSE With(Eval(st.e, Env(loc, ns, ns, TRUE)), LAMBDA r :
              IF ~r.ok THEN ExecRaise(r)
              ELSE CASE st.k = "assign" -> ExecStmts(sts, i + 1, Put(loc, st.name, r.val), ns)
                     [] st.k = "if" ->
                           IF Truthy(r.val)
                           THEN With(ExecStmts(st.body, 1, loc, ns), LAMBDA b :
                                     IF ~b.ok THEN b ELSE ExecStmts(sts, i + 1, b.loc, ns))
                           ELSE ExecStmts(sts, i + 1, loc, ns)
                     [] OTHER -> ExecStmts(sts, i + 1, loc, ns)))

(***************************************************************************)
(* process_multiline_statements (tree "old")                               *)
(***************************************************************************)
BlockKeywords == {<<"d", "e", "f", " ">>, <<"c", "l", "a", "s", "s", " ">>, <<"i", "f", " ">>, <<"f", "o", "r", " ">>, <<"w", "h", "i", "l", "e", " ">>, <<"t", "r", "y", ":">>,
                  <<"e", "x", "c", "e", "p", "t">>, <<"f", "i", "n", "a", "l", "l", "y", ":">>, <<"w", "i", "t", "h", " ">>, <<"e", "l", "i", "f", " ">>, <<"e", "l", "s", "e", ":">>}

Item(line_num, code, is_multiline) ==
    [line_num |-> line_num, code |-> code, is_multiline |-> is_multiline]

SegInit == [processed |-> <<>>, current_block |-> <<>>, block_start |-> 0, indent_level |-> 0]

\* not stripped or stripped.startswith('#')
IsBlankOrCommentLine(stripped) == stripped = <<>> \/ startswith(stripped, <<"#">>)

\* a test for multi-line indicators that knows no keyword
EndsWithColonOrNested(st, stripped) == endswith(stripped, <<":">>) \/ st.indent_level > 0

\* the test for multi-line indicators
IsMultiline(st, stripped) ==
    \/ endswith(stripped, <<":">>)
    \/ \E kw \in BlockKeywords : startswith(stripped, kw)
    \/ st.indent_level > 0

\* an update of the indent level with no floor at 0
LevelUnbounded(st, line, stripped) ==
    IF endswith(stripped, <<":">>) THEN st.indent_level + 1
    ELSE IF startswith(line, <<" ", " ", " ", " ">>) \/ startswith(line, <<"\t">>)
         THEN st.indent_level
    ELSE st.indent_level - 1

\* an update of the indent level that takes an indented line for an unindented one
LevelIgnoringIndent(st, line, stripped) ==
    IF endswith(stripped, <<":">>) THEN st.indent_level + 1
    ELSE IF st.indent_level - 1 > 0 THEN st.indent_level - 1 ELSE 0

\* the update of the indent level
Level(st, line, stripped) ==
    IF endswith(stripped, <<":">>) THEN st.indent_level + 1
    ELSE IF startswith(line, <<" ", " ", " ", " ">>) \/ startswith(line, <<"\t">>)
         THEN st.indent_level
    ELSE IF st.indent_level - 1 > 0 THEN st.indent_level - 1 ELSE 0

\* a blank or comment line that is always a unit of its own
BlankLineAlone(st, i, line) == [st EXCEPT !.processed = Append(@, Item(i, line, FALSE))]

\* the branch of a blank or comment line
BlankLine(st, i, line) ==
    IF st.current_block # <<>>
    THEN [st EXCEPT !.current_block = @ \o line \o <<"\n">>]
    ELSE [st EXCEPT !.processed = Append(@, Item(i, line, FALSE))]

\* one iteration of the loop over the lines: line number i (from 0), text line
SegStep(st, i, line) ==
    LET stripped == strip(line)
    IN  IF IsBlankOrCommentLine(stripped) THEN BlankLine(st, i, line)
        ELSE IF IsMultiline(st, stripped)
        THEN LET start == IF st.current_block = <<>> THEN i ELSE st.block_start
                 block == st.current_block \o line \o <<"\n">>
                 level == Level(st, line, stripped)
             IN  IF level = 0 /\ ~endswith(stripped, <<":">>)
                 THEN [processed |-> Append(st.processed, Item(start, strip(block), TRUE)),
                       current_block |-> <<>>, block_start |-> start, indent_level |-> level]
                 ELSE [processed |-> st.processed,
                       current_block |-> block, block_start |-> start, indent_level |-> level]
        ELSE IF st.current_block # <<>>
        THEN [st EXCEPT !.processed = @ \o <<Item(st.block_start, strip(st.current_block), TRUE),
                                             Item(i, line, FALSE)>>,
                        !.current_block = <<>>]
        ELSE [st EXCEPT !.processed = Append(@, Item(i, line, FALSE))]

RECURSIVE SegLoop(_, _, _)
SegLoop(st, lines, i) ==
    IF i > Len(lines) THEN st ELSE SegLoop(SegStep(st, i - 1, lines[i]), lines, i + 1)

\* an end of input that drops the remaining block
DropRemaining(st) == st.processed

\* the end of input: any remaining block is a unit
HandleRemaining(st) ==
    IF st.current_block # <<>>
    THEN Append(st.processed, Item(st.block_start, strip(st.current_block), TRUE))
    ELSE st.processed

process_multiline_statements(lines) == HandleRemaining(SegLoop(SegInit, lines, 1))

(***************************************************************************)
(* execute_multiline_code (tree "old")                                     *)
(***************************************************************************)
TrailingKeywords == BlockKeywords \cup {<<"r", "e", "t", "u", "r", "n", " ">>, <<"y", "i", "e", "l", "d", " ">>, <<"i", "m", "p", "o", "r", "t", " ">>, <<"f", "r", "o", "m", " ">>}

Last(s) == s[Len(s)]

\* a trailing evaluation whose failure is the failure of the unit
TrailingValueRaises(code_block, loc, globals) ==
    With(strip(Last(split(strip(code_block), "\n"))), LAMBDA last_line :
         IF last_line = <<>> \/ \E kw \in TrailingKeywords : startswith(last_line, kw)
         THEN Ok(NoneVal)
         ELSE With(ParseWhole(Tokens(last_line, 1)), LAMBDA tail :
              IF ~tail.ok THEN Raise("SyntaxError", "invalid syntax")
              ELSE Eval(tail.ast, Env(loc, globals, globals, TRUE))))

\* the value of the last line of the block when that line is an expression,
\* None when it is not one or its evaluation fails
TrailingValue(code_block, loc, globals) ==
    With(strip(Last(split(strip(code_block), "\n"))), LAMBDA last_line :
         IF last_line = <<>> \/ \E kw \in TrailingKeywords : startswith(last_line, kw)
         THEN Ok(NoneVal)
         ELSE With(ParseWhole(Tokens(last_line, 1)), LAMBDA tail :
              IF ~tail.ok THEN Ok(NoneVal)
              ELSE With(Eval(tail.ast, Env(loc, globals, globals, TRUE)), LAMBDA value :
                        IF value.ok THEN value ELSE Ok(NoneVal))))

\* an execution that records none of the names the block binds
RecordNothing(variables, local_ns) == variables

\* self.variables.update(local_ns)
RecordLocals(variables, local_ns) == Update(variables, local_ns)

\* the result: the value returned (None when there is none) or the exception
\* raised, and namespace and variables as the call leaves them
execute_multiline_code(code_block, namespace, variables) ==
    With(ParseTop(LogicalLines(split(code_block, "\n")), 1), LAMBDA compiled :
         IF ~compiled.ok
         THEN [out |-> Raise("SyntaxError", "invalid syntax"), namespace |-> namespace, variables |-> variables]
         ELSE \* exec stores the builtins module in the globals it is given
              With(Put(namespace, "__builtins__", ModuleVal("builtins")), LAMBDA globals :
              With(ExecStmts(compiled.sts, 1, EmptyMap, globals), LAMBDA x :
                   IF ~x.ok
                   THEN [out |-> Raise(x.cls, x.msg), namespace |-> globals, variables |-> variables]
                   ELSE [out |-> TrailingValue(code_block, x.loc, globals),
                         namespace |-> globals,
                         variables |-> RecordLocals(variables, x.loc)])))

(***************************************************************************)
(* HistoryPanel: the records self.history and the items of the list widget *)
(* self.history_list                                                       *)
(***************************************************************************)
NoHistory == [history |-> <<>>, history_list |-> <<>>]

\* the number of items the panel keeps, the longest display text, and the
\* length a longer one is cut to before "..."
HistoryLimit == 100
DisplayLimit == 60
DisplayCut == 57

\* QTimer().remainingTime() of a timer that was never started
NoTimestamp == -1

\* the text of a list item
DisplayText(expression, result) ==
    With(str(expression) \o " = " \o result, LAMBDA display_text :
         IF Len(display_text) > DisplayLimit
         THEN SubSeq(display_text, 1, DisplayCut) \o "..." ELSE display_text)

\* a panel that takes its newest item away when it holds too many
KeepOldest(panel) ==
    IF Len(panel.history_list) > HistoryLimit
    THEN [history |-> SubSeq(panel.history, 1, Len(panel.history) - 1),
          history_list |-> SubSeq(panel.history_list, 1, Len(panel.history_list) - 1)]
    ELSE panel

\* "Keep only last 100 items": takeItem(0) and history.pop(0)
KeepLast(panel) ==
    IF Len(panel.history_list) > HistoryLimit
    THEN [history |-> Tail(panel.history), history_list |-> Tail(panel.history_list)]
    ELSE panel

add_calculation(panel, expression, result) ==
    KeepLast([history |-> Append(panel.history,
                                 [expression |-> expression, result |-> result,
                                  timestamp |-> NoTimestamp]),
              history_list |-> Append(panel.history_list, DisplayText(expression, result))])

\* the calls of add_calculation a pass makes, in the order of its units
RECURSIVE RecordCalls(_, _, _)
RecordCalls(panel, trace, k) ==
    IF k > Len(trace) THEN panel
    ELSE RecordCalls(IF trace[k].recorded
                     THEN add_calculation(panel, trace[k].code, format_result(trace[k].val))
                     ELSE panel, trace, k + 1)

(***************************************************************************)
(* State                                                                   *)
(***************************************************************************)
VARIABLES
    tree,           \* "core" or "old": which ScientificCalculator is running
    doc,            \* the lines of the current editor's text
    current,        \* the editor of the current tab
    tabs,           \* the other open editors: editor -> its text and its line_results
    namespace,      \* self.namespace
    variables,      \* self.variables
    line_results,   \* self.line_results: 0-based line number -> string
    shown,          \* the editor's line_results: 1-based line number -> string
    inspector,      \* the mapping last given to variables_widget.update_variables
    timer,          \* the active single-shot timers: editor to recalculate, time left
    left,           \* editor -> variables and line_results as the last pass over it left them
    formatted,      \* a value, and the string format_result returned for it once called
    seg,            \* a call of process_multiline_statements: its lines, its position, its locals
    history_widget, \* the history panel: its records and its list items
    edits,          \* number of edits made to the text
    last,           \* the last operation, and whether it ran a pass
    lastPass        \* the most recent pass: its text and what it did unit by unit

vars == <<tree, doc, current, tabs, namespace, variables, line_results, shown, inspector,
          timer, left, formatted, seg, history_widget,
          edits, last, lastPass>>

\* setup_calculation_namespace: two of the bindings of base_namespace
base_namespace == ("abs" :> BuiltinVal("abs")) @@ ("math" :> ModuleVal("math"))

(***************************************************************************)
(* One unit of a pass.  A pass is a fold over the units; its state holds   *)
(* the engine's fields and, unit by unit, what the pass did (trace).       *)
(***************************************************************************)
Entry(text) == [has |-> TRUE, text |-> text]
NoEntry == [has |-> FALSE, text |-> ""]

\* an except clause that catches syntax errors only
OnlySyntaxErrors == {"SyntaxError"}

\* classes caught by "except Exception"
ExceptionClasses == {"SyntaxError", "NameError", "TypeError"}

Unit(item, mode, kind, name, out, before, evalns, after, entry, recorded) ==
    [line_num |-> item.line_num, code |-> item.code, is_multiline |-> item.is_multiline,
     mode |-> mode, kind |-> kind, name |-> name, val |-> out.val, cls |-> out.cls, msg |-> out.msg,
     nsBefore |-> before.namespace, varsBefore |-> before.variables, nsEval |-> evalns,
     nsAfter |-> after.namespace, varsAfter |-> after.variables,
     entry |-> entry, recorded |-> recorded]

\* a pass that starts from the namespace the caller left, not from a copy of the base
PassStartKeepsNamespace(cur) ==
    [namespace |-> cur.namespace, variables |-> EmptyMap, line_results |-> EmptyMap,
     trace |-> <<>>, aborted |-> FALSE]

\* a pass that starts without clearing line_results
PassStartKeepsResults(cur) ==
    [namespace |-> base_namespace, variables |-> EmptyMap, line_results |-> cur.line_results,
     trace |-> <<>>, aborted |-> FALSE]

\* the head of recalculate_changed_lines: cur holds the fields as the caller left them
PassStart(cur) == [namespace |-> base_namespace, variables |-> EmptyMap, line_results |-> EmptyMap,
                   trace |-> <<>>, aborted |-> FALSE]

\* the state of the pass after a unit: fields set, entry written, unit recorded
After(st, item, mode, kind, name, out, evalns, ns, vs, entry, recorded) ==
    LET after == [namespace |-> ns, variables |-> vs]
    IN  [namespace |-> ns, variables |-> vs,
         line_results |-> IF entry.has THEN Put(st.line_results, item.line_num, entry.text)
                          ELSE st.line_results,
         trace |-> Append(st.trace, Unit(item, mode, kind, name, out, st, evalns, after, entry, recorded)),
         aborted |-> kind = "Aborted"]

\* the except clause of the loop body: an Exception becomes the line's entry,
\* any other exception leaves the loop and the pass
Except(st, item, mode, out, evalns, ns) ==
    IF out.cls \in ExceptionClasses
    THEN After(st, item, mode, "Failed", "", out, evalns, ns, st.variables, Entry("Error: " \o out.msg), FALSE)
    ELSE After(st, item, mode, "Aborted", "", out, evalns, ns, st.variables, NoEntry, FALSE)

\* a test that skips blank lines only
IsBlank(text) == strip(text) = <<>>

IsBlankOrComment(text) == strip(text) = <<>> \/ startswith(strip(text), <<"#">>)

ComparisonOps == {<<"=", "=">>, <<"!", "=">>, <<"<", "=">>, <<">", "=">>}

\* the body of the loop of recalculate_changed_lines, tree "core"
CoreUnit(st, item) ==
    With(item.code, LAMBDA line :
    With(st.namespace, LAMBDA ns :
         IF IsBlankOrComment(line)
         THEN After(st, item, "none", "NoResult", "", Ok(NoneVal), ns, ns, st.variables, NoEntry, FALSE)
         ELSE With(contains(line, <<"=">>) /\ ~\E op \in ComparisonOps : contains(line, op),
                   LAMBDA assignment :
              With(IF assignment THEN str(strip(splitHead(line, "="))) ELSE "", LAMBDA var_name :
              With(IF assignment THEN strip(splitRest(line, "=")) ELSE line, LAMBDA expression :
              With(EvalLine(expression, ns), LAMBDA result :
                   IF ~result.ok
                   THEN Except(st, item, IF assignment THEN "assign" ELSE "expr", result, ns, ns)
                   ELSE IF assignment
                   THEN After(st, item, "assign", "Assigned", var_name, result, ns,
                              Put(ns, var_name, result.val), Put(st.variables, var_name, result.val),
                              Entry(var_name \o " = " \o format_result_core(result.val)), FALSE)
                   ELSE After(st, item, "expr", "Evaluated", "", result, ns, ns, st.variables,
                              IF result.val # NoneVal THEN Entry(format_result_core(result.val)) ELSE NoEntry,
                              FALSE)))))))

\* the test that makes a single line an assignment, tree "old"
OldIsAssignment(code_block) ==
    /\ contains(code_block, <<"=">>)
    /\ ~\E op \in ComparisonOps : contains(splitHead(code_block, "="), op)

\* a single line of tree "old": an assignment or an expression
OldLine(st, item, ns) ==
    With(item.code, LAMBDA code_block :
    With(OldIsAssignment(code_block), LAMBDA assignment :
    With(IF assignment THEN str(strip(splitHead(code_block, "="))) ELSE "", LAMBDA var_name :
    With(IF assignment THEN strip(splitRest(code_block, "=")) ELSE code_block, LAMBDA expression :
    With(EvalLine(expression, ns), LAMBDA result :
         IF ~result.ok
         THEN Except(st, item, IF assignment THEN "assign" ELSE "expr", result, ns, ns)
         ELSE IF assignment
         THEN After(st, item, "assign", "Assigned", var_name, result, ns,
                    Put(ns, var_name, result.val), Put(st.variables, var_name, result.val),
                    Entry(var_name \o " = " \o format_result(result.val)), TRUE)
         ELSE After(st, item, "expr", "Evaluated", "", result, ns, ns, st.variables,
                    Entry(format_result(result.val)), TRUE))))))

\* a multi-line block of tree "old"
OldBlock(st, item, ns) ==
    With(execute_multiline_code(item.code, ns, st.variables), LAMBDA x :
         IF ~x.out.ok THEN Except(st, item, "block", x.out, ns, x.namespace)
         ELSE IF x.out.val # NoneVal
         THEN After(st, item, "block", "Executed", "", x.out, ns, x.namespace, x.variables,
                    Entry(format_result(x.out.val)), TRUE)
         ELSE After(st, item, "block", "ExecutedOnly", "", x.out, ns, x.namespace, x.variables,
                    Entry("executed"), FALSE))

\* the body of the loop of recalculate_changed_lines, tree "old"
OldUnit(st, item) ==
    IF IsBlankOrComment(item.code)
    THEN After(st, item, "none", "NoResult", "", Ok(NoneVal), st.namespace, st.namespace, st.variables, NoEntry, FALSE)
    ELSE \* self.namespace.update(self.variables)
         With(Update(st.namespace, st.variables), LAMBDA ns :
              IF item.is_multiline THEN OldBlock(st, item, ns) ELSE OldLine(st, item, ns))

\* the units a pass iterates over: every line (core), the segmenter's items (old)
Units(which, lines) ==
    IF which = "old" THEN process_multiline_statements(lines)
    ELSE [i \in 1..Len(lines) |-> Item(i - 1, lines[i], FALSE)]

RECURSIVE PassLoop(_, _, _, _)
PassLoop(which, st, units, i) ==
    IF i > Len(units) \/ st.aborted THEN st
    ELSE PassLoop(which, IF which = "old" THEN OldUnit(st, units[i]) ELSE CoreUnit(st, units[i]), units, i + 1)

\* editor.toPlainText().split('\n') for the text whose lines are d
toLines(d) == IF d = <<>> THEN <<<<>>>> ELSE d

\* recalculate_changed_lines up to the end of its loop
RunPass(which, d, cur) == PassLoop(which, PassStart(cur), Units(which, toLines(d)), 1)

\* update_inline_results: the editor's map is cleared, then set from line_results
update_inline_results(results) ==
    [n \in {l + 1 : l \in DOMAIN results} |-> results[n - 1]]

(***************************************************************************)
(* Documents of the model                                                  *)
(***************************************************************************)
ArithLines == {<<"x", " ", "=", " ", "2">>, <<"y", " ", "=", " ", "x", " ", "+", " ", "3">>, <<"y">>, <<"x", " ", "=", " ", "x", " ", "+", " ", "3">>}

InspectLines == {<<"x", " ", "=", " ", "2">>, <<"y", " ", "=", " ", "x", " ", "+", " ", "3">>, <<"y">>, <<"2", " ", "+", " ", "3">>}

CmpLines == {<<"x", " ", "=", " ", "2">>, <<"x", " ", "=", "=", " ", "2">>, <<"y", " ", "=", " ", "x", " ", "<", "=", " ", "2">>, <<"N", "o", "n", "e">>}

BlockLines == {<<"d", "e", "f", " ", "f", "(", "n", ")", ":">>, <<" ", " ", " ", " ", "r", "e", "t", "u", "r", "n", " ", "n", " ", "*", " ", "2">>, <<"f", "(", "3", ")">>, <<"z">>}

LayoutLines == {<<"d", "e", "f", " ", "f", "(", "n", ")", ":">>, <<" ", " ", " ", " ", "r", "e", "t", "u", "r", "n", " ", "n", " ", "*", " ", "2">>, <<"#", " ", "c">>, <<>>}

SeqsUpTo(S, n) == UNION {[1..k -> S] : k \in 0..n}

\* names the inspector's delete and edit requests are made for
InspectorNames == {"y"}

\* value texts typed into the inspector's edit dialog
ValueTexts == {<<"7">>, <<"q">>}

(***************************************************************************)
(* Operations                                                              *)
(***************************************************************************)
\* a call of an operation: its name, the variable named and the text given
OpText(name, arg, text) == [name |-> name, arg |-> arg, text |-> text]

Op(name, arg) == OpText(name, arg, <<>>)

Engine == [namespace |-> namespace, variables |-> variables, line_results |-> line_results]

\* the editors a window can hold
EditorIds == {"Document", "Document 2"}

\* editor.toPlainText()
TextOf(editor) == IF editor = current THEN doc ELSE tabs[editor].text

\* the pass before this one ran to its end over the text that the editor still holds
SameText(editor) ==
    /\ lastPass.valid /\ ~lastPass.aborted
    /\ lastPass.editor = editor /\ lastPass.text = TextOf(editor)

\* a request that returns without a pass, whatever it did to the engine's fields
ReturnsWithoutPass(op, cur) ==
    /\ last' = [op |-> op.name, arg |-> op.arg, text |-> op.text, ran |-> FALSE]
    /\ UNCHANGED <<tabs, namespace, variables, line_results, shown, inspector, left, lastPass,
                   history_widget>>

\* recalculate_changed_lines(editor), called by operation op with the engine fields cur
RecalculateEditor(op, cur, editor) ==
    \E p \in {RunPass(tree, TextOf(editor), cur)} :
        /\ namespace' = p.namespace
        /\ variables' = p.variables
        /\ line_results' = p.line_results
        /\ shown' = IF p.aborted \/ editor # current THEN shown
                    ELSE update_inline_results(p.line_results)
        /\ tabs' = IF p.aborted \/ editor = current THEN tabs
                   ELSE [tabs EXCEPT ![editor].shown = update_inline_results(p.line_results)]
        /\ inspector' = IF p.aborted THEN inspector ELSE p.variables
        /\ history_widget' = RecordCalls(history_widget, p.trace, 1)
        /\ left' = [e \in DOMAIN left \cup {editor} |->
                        IF e = editor
                        THEN [variables |-> p.variables, line_results |-> p.line_results]
                        ELSE left[e]]
        /\ last' = [op |-> op.name, arg |-> op.arg, text |-> op.text, ran |-> TRUE]
        /\ lastPass' = [valid |-> TRUE, editor |-> editor, text |-> TextOf(editor),
                        trace |-> p.trace, aborted |-> p.aborted,
                        start |-> cur,
                        repeat |-> SameText(editor),
                        before |-> IF SameText(editor) THEN line_results ELSE EmptyMap]

\* recalculate_all(): the pass runs over the current editor
Recalculate(op, cur) == RecalculateEditor(op, cur, current)

NoPass(op) ==
    /\ last' = [op |-> op.name, arg |-> op.arg, text |-> op.text, ran |-> FALSE]
    /\ UNCHANGED <<tabs, namespace, variables, line_results, shown, inspector, left, lastPass,
                   history_widget>>

NoPassYet == [valid |-> FALSE, editor |-> "", text |-> <<>>, trace |-> <<>>, aborted |-> FALSE,
              start |-> [namespace |-> base_namespace, variables |-> EmptyMap, line_results |-> EmptyMap],
              repeat |-> FALSE, before |-> EmptyMap]

\* calculation_timer.start(500): the interval of the timer, in milliseconds
Delay == 500

\* the time between an edit and the event before it, when a timer is running
Gaps == {Delay \div 2}

\* the active timers after d milliseconds
Elapse(timers, d) == {[t EXCEPT !.remaining = @ - d] : t \in timers}

\* on_text_changed without calculation_timer.stop()
NoStop(timers) == timers

\* calculation_timer.stop(): calculation_timer is the timer started last,
\* which among the active timers is the one with the most time left
Stop(timers) == {t \in timers : \E o \in timers : o.remaining > t.remaining}

\* an edit of the text changes no field of the engine; the record of the pass
\* that ran over the earlier text is dropped
Edited ==
    /\ last' = [op |-> "edit", arg |-> "", text |-> <<>>, ran |-> FALSE]
    /\ lastPass' = NoPassYet
    /\ UNCHANGED <<tabs, namespace, variables, line_results, shown, inspector, left, history_widget>>

\* a call of process_multiline_statements(lines) before its first iteration
Segmenting(lines) ==
    [lines |-> lines, i |-> 0, st |-> SegInit, returned |-> FALSE, processed |-> <<>>]

\* format_result was not called with the value result
NotCalled(result) == [called |-> FALSE, result |-> result, text |-> ""]

InitWith(L) ==
    /\ tree \in {"core", "old"}
    /\ doc \in SeqsUpTo(L, MaxLines)
    /\ current = "Document"
    /\ tabs = EmptyMap
    /\ namespace = base_namespace
    /\ variables = EmptyMap
    /\ line_results = EmptyMap
    /\ shown = EmptyMap
    /\ inspector = EmptyMap
    /\ timer = {[editor |-> "Document", remaining |-> Delay]}
    /\ left = EmptyMap
    /\ edits = 0
    /\ formatted = NotCalled(NoneVal)
    /\ seg = Segmenting(<<>>)
    /\ history_widget = NoHistory
    /\ last = [op |-> "open", arg |-> "", text |-> <<>>, ran |-> FALSE]
    /\ lastPass = NoPassYet

\* on_text_changed(editor), gap milliseconds after the event before it: the
\* timer started last is stopped and a new one started
on_text_changed(editor, gap) ==
    /\ \A t \in timer : t.remaining > gap
    /\ timer' = Stop(Elapse(timer, gap)) \cup {[editor |-> editor, remaining |-> Delay]}

\* the user types a line at the end of the text, the n-th edit at most
TypeLineWithin(L, n) ==
    /\ edits < n
    /\ Len(doc) < MaxLines
    /\ \E l \in L : doc' = Append(doc, l)
    /\ \E gap \in Gaps : on_text_changed(current, gap)
    /\ edits' = edits + 1
    /\ Edited
    /\ UNCHANGED <<tree, current, formatted, seg>>

TypeLine(L) == TypeLineWithin(L, MaxEdits)

\* the user removes the first line of the text
RemoveLine ==
    /\ edits < MaxEdits
    /\ doc # <<>>
    /\ doc' = Tail(doc)
    /\ \E gap \in Gaps : on_text_changed(current, gap)
    /\ edits' = edits + 1
    /\ Edited
    /\ UNCHANGED <<tree, current, formatted, seg>>

\* the time the active timer t has left passes, no other timer being due
\* before it, and t, a single-shot timer, is no longer active
Timeout(t) ==
    /\ \A o \in timer : o.remaining >= t.remaining
    /\ timer' = Elapse(timer \ {t}, t.remaining)

\* the timeout of the timer that is due first: recalculate_changed_lines(editor)
TimerFires ==
    /\ \E t \in timer :
          /\ Timeout(t)
          /\ RecalculateEditor(Op("timer", t.editor), Engine, t.editor)
    /\ UNCHANGED <<tree, doc, current, edits, formatted, seg>>

\* File > New: a new empty editor in a new tab, which becomes the current tab
create_new_document ==
    /\ \E editor \in EditorIds \ (DOMAIN tabs \cup {current}) :
          /\ tabs' = (current :> [text |-> doc, shown |-> shown]) @@ tabs
          /\ current' = editor
    /\ doc' = <<>>
    /\ shown' = EmptyMap
    /\ last' = [op |-> "create_new_document", arg |-> "", text |-> <<>>, ran |-> FALSE]
    /\ UNCHANGED <<tree, namespace, variables, line_results, inspector, timer, left, edits, lastPass,
                   formatted, seg, history_widget>>

\* the user selects another tab: no handler of the engine is connected to it
SwitchTab ==
    /\ \E editor \in DOMAIN tabs :
          /\ tabs' = [e \in (DOMAIN tabs \ {editor}) \cup {current} |->
                          IF e = current THEN [text |-> doc, shown |-> shown] ELSE tabs[e]]
          /\ current' = editor
          /\ doc' = tabs[editor].text
          /\ shown' = tabs[editor].shown
    /\ last' = [op |-> "switch_tab", arg |-> "", text |-> <<>>, ran |-> FALSE]
    /\ UNCHANGED <<tree, namespace, variables, line_results, inspector, timer, left, edits, lastPass,
                   formatted, seg, history_widget>>

\* the most history records a request for a pass is followed from, but for a
\* panel that is full or within that many records of full
MaxRecorded == MaxLines + 1
HistoryFollowed ==
    \/ Len(history_widget.history) < MaxRecorded
    \/ Len(history_widget.history) + MaxRecorded >= HistoryLimit

\* the "Recalculate All" button: recalculate_all(editor)
RecalculateAll ==
    /\ HistoryFollowed
    /\ Recalculate(Op("recalculate_all", ""), Engine)
    /\ UNCHANGED <<tree, doc, current, timer, edits, formatted, seg>>

clear_variables ==
    /\ HistoryFollowed
    /\ Recalculate(Op("clear_variables", ""), [Engine EXCEPT !.variables = EmptyMap, !.namespace = base_namespace])
    /\ UNCHANGED <<tree, doc, current, timer, edits, formatted, seg>>

delete_variable ==
    /\ HistoryFollowed
    /\ \E var_name \in InspectorNames :
          IF var_name \in DOMAIN variables
          THEN Recalculate(Op("delete_variable", var_name),
                           [Engine EXCEPT !.variables = Del(@, var_name), !.namespace = Del(@, var_name)])
          ELSE NoPass(Op("delete_variable", var_name))
    /\ UNCHANGED <<tree, doc, current, timer, edits, formatted, seg>>

edit_variable ==
    /\ HistoryFollowed
    /\ \E var_name \in InspectorNames, new_value_str \in ValueTexts :
          \E new_value \in {EvalLine(new_value_str, base_namespace)} :
              IF new_value.ok
              THEN Recalculate(OpText("edit_variable", var_name, new_value_str),
                               [Engine EXCEPT !.variables = Put(@, var_name, new_value.val),
                                              !.namespace = Put(@, var_name, new_value.val)])
              ELSE NoPass(OpText("edit_variable", var_name, new_value_str))
    /\ UNCHANGED <<tree, doc, current, timer, edits, formatted, seg>>

\* arithmetic documents, edited and recalculated
Init == InitWith(ArithLines)
Next == TypeLine(ArithLines) \/ RemoveLine \/ TimerFires \/ RecalculateAll
Spec == Init /\ [][Next]_vars

\* arithmetic documents, with the variable inspector's requests
InitInspect == InitWith(InspectLines)
NextInspect == TimerFires \/ clear_variables \/ delete_variable \/ edit_variable
SpecInspect == InitInspect /\ [][NextInspect]_vars

\* documents with comparisons and None
InitCmp == InitWith(CmpLines)
NextCmp == TypeLine(CmpLines) \/ RemoveLine \/ TimerFires \/ RecalculateAll
SpecCmp == InitCmp /\ [][NextCmp]_vars

\* documents with a function definition
InitBlocks == InitWith(BlockLines)
NextBlocks == TypeLine(BlockLines) \/ RemoveLine \/ TimerFires \/ RecalculateAll
SpecBlocks == InitBlocks /\ [][NextBlocks]_vars

\* some active timer times out: the steps of TimerFires, which are the only
\* steps that take a timer away and whose pass always runs to its end
TimerDue == \E t \in timer : Timeout(t)

\* arithmetic documents edited in bursts; the event loop delivers the timeout
\* of a timer that was started and is not stopped
InitDebounce == InitWith(ArithLines)
NextDebounce == TypeLine(ArithLines) \/ RemoveLine \/ TimerFires \/ RecalculateAll
SpecDebounce == InitDebounce /\ [][NextDebounce]_vars /\ WF_timer(TimerDue)

\* documents of up to two tabs: an assignment and a use of its name
TabLines == {<<"x", " ", "=", " ", "2">>, <<"x">>}
InitTabs == InitWith(TabLines)
NextTabs == TypeLine(TabLines) \/ TimerFires \/ RecalculateAll \/ create_new_document \/ SwitchTab
SpecTabs == InitTabs /\ [][NextTabs]_vars

\* documents of up to two tabs edited in bursts; the event loop delivers the
\* timeout of a timer that was started and is not stopped
MaxSharedEdits == 2
InitShared == InitWith(TabLines)
NextShared == TypeLineWithin(TabLines, MaxSharedEdits) \/ TimerFires \/ create_new_document \/ SwitchTab
SpecShared == InitShared /\ [][NextShared]_vars /\ WF_timer(TimerDue)

\* the longest sequence format_result is given
MaxItems == 11

\* real and imaginary parts: 0.0, -0.0, 3.0, -4.0, 5.0, 0.5, 1e11, 1e-5
FloatParts ==
    {FloatVal(FALSE, 0, 0), FloatVal(TRUE, 0, 0), FloatVal(FALSE, 3, 0), FloatVal(TRUE, 4, 0),
     FloatVal(FALSE, 5, 0), FloatVal(FALSE, 5, -1), FloatVal(FALSE, 1, 11), FloatVal(FALSE, 1, -5)}

ComplexInputs == {ComplexVal(real, imag) : real \in FloatParts, imag \in FloatParts}

\* more floats: 1e10, 1e-4, 1234567.0, 0.333333333, -2.5, 12345678900.0, 1e12,
\* -1e10, 10000000100.0, 9.9999e-05
FloatInputs ==
    FloatParts \cup {FloatVal(FALSE, 1, 10), FloatVal(FALSE, 1, -4), FloatVal(FALSE, 1234567, 0),
                     FloatVal(FALSE, 333333333, -9), FloatVal(TRUE, 25, -1),
                     FloatVal(FALSE, 123456789, 2), FloatVal(FALSE, 1, 12),
                     FloatVal(TRUE, 1, 10), FloatVal(FALSE, 100000001, 2),
                     FloatVal(FALSE, 99999, -9)}

\* the sequence 1, 2, ..., n
Counting(n) == [i \in 1..n |-> IntVal(i)]

\* lists and tuples of every length up to MaxItems, and a list of values of
\* several kinds: [True, None, 2.0, [1, 2], (1,)]
SequenceInputs ==
    {ListVal(Counting(n)) : n \in 0..MaxItems} \cup {TupleVal(Counting(n)) : n \in 0..MaxItems}
    \cup {ListVal(<<BoolVal(TRUE), NoneVal, FloatVal(FALSE, 2, 0), ListVal(Counting(2)),
                    TupleVal(Counting(1))>>)}

\* a string of n digits
RECURSIVE DigitString(_)
DigitString(n) ==
    IF n < 10 THEN SubSeq("123456789", 1, n) ELSE "1234567890" \o DigitString(n - 10)

\* the number of elements of the largest set format_result is given
LongSet == 60

\* values without a formatting rule of their own: strings of 0, 199, 200, 201
\* and 250 characters, the function def f(n): return n * 2, and the sets
\* set(), {1, 2}, {1, ..., 11}, {1, ..., 60}
GenericInputs ==
    {StrVal(DigitString(n)) : n \in {0, MaxShown - 1, MaxShown, MaxShown + 1, MaxShown + 50}}
    \cup {FuncVal(<<"f">>, <<"n">>, <<>>)}
    \cup {SetVal(Counting(n)) : n \in {0, 2, PreviewLimit + 1, LongSet}}

\* the values format_result is called with
FormatInputs ==
    ComplexInputs \cup FloatInputs \cup SequenceInputs \cup GenericInputs
    \cup {NoneVal, BoolVal(TRUE), BoolVal(FALSE), IntVal(7)}

InitFormat ==
    /\ tree \in {"core", "old"}
    /\ doc = <<>>
    /\ current = "Document"
    /\ tabs = EmptyMap
    /\ namespace = base_namespace
    /\ variables = EmptyMap
    /\ line_results = EmptyMap
    /\ shown = EmptyMap
    /\ inspector = EmptyMap
    /\ timer = {}
    /\ left = EmptyMap
    /\ \E result \in FormatInputs : formatted = NotCalled(result)
    /\ seg = Segmenting(<<>>)
    /\ history_widget = NoHistory
    /\ edits = 0
    /\ last = [op |-> "open", arg |-> "", text |-> <<>>, ran |-> FALSE]
    /\ lastPass = NoPassYet

\* a call of format_result(result)
Format ==
    /\ ~formatted.called
    /\ formatted' = [called |-> TRUE, result |-> formatted.result,
                     text |-> IF tree = "old" THEN format_result(formatted.result)
                              ELSE format_result_core(formatted.result)]
    /\ UNCHANGED <<tree, doc, current, tabs, namespace, variables, line_results, shown,
                   inspector, timer, left, edits, last, lastPass, seg, history_widget>>

NextFormat == Format
SpecFormat == InitFormat /\ [][NextFormat]_vars

\* the longest text process_multiline_statements is given, in lines
MaxSegLen == 4

\* lines for the segmenter: two headers, an indented line, a simple line, a
\* compound statement on one line, a comment, a blank line
SegLines == {<<"i", "f", " ", "x", ":">>,
             <<"e", "l", "s", "e", ":">>,
             <<" ", " ", " ", " ", "y", " ", "=", " ", "1">>,
             <<"z", " ", "=", " ", "2">>,
             <<"i", "f", " ", "x", ":", " ", "y", " ", "=", " ", "1">>,
             <<"#", " ", "c">>,
             <<>>}

InitSeg ==
    /\ tree = "old"
    /\ doc = <<>>
    /\ current = "Document"
    /\ tabs = EmptyMap
    /\ namespace = base_namespace
    /\ variables = EmptyMap
    /\ line_results = EmptyMap
    /\ shown = EmptyMap
    /\ inspector = EmptyMap
    /\ timer = {}
    /\ left = EmptyMap
    /\ formatted = NotCalled(NoneVal)
    /\ \E lines \in SeqsUpTo(SegLines, MaxSegLen) : seg = Segmenting(lines)
    /\ history_widget = NoHistory
    /\ edits = 0
    /\ last = [op |-> "open", arg |-> "", text |-> <<>>, ran |-> FALSE]
    /\ lastPass = NoPassYet

\* one iteration of the loop of process_multiline_statements
SegLine ==
    /\ ~seg.returned /\ seg.i < Len(seg.lines)
    /\ seg' = [seg EXCEPT !.st = SegStep(seg.st, seg.i, seg.lines[seg.i + 1]), !.i = @ + 1]
    /\ UNCHANGED <<tree, doc, current, tabs, namespace, variables, line_results, shown,
                   inspector, timer, left, formatted, edits, last, lastPass, history_widget>>

\* the end of the loop: the remaining block is handled and processed returned
SegReturn ==
    /\ ~seg.returned /\ seg.i = Len(seg.lines)
    /\ seg' = [seg EXCEPT !.returned = TRUE, !.processed = HandleRemaining(seg.st)]
    /\ UNCHANGED <<tree, doc, current, tabs, namespace, variables, line_results, shown,
                   inspector, timer, left, formatted, edits, last, lastPass, history_widget>>

NextSeg == SegLine \/ SegReturn
SpecSeg == InitSeg /\ [][NextSeg]_vars

\* documents whose passes make history calls: an assignment and an expression
HistoryLines == {<<"x", " ", "=", " ", "2">>, <<"2", " ", "+", " ", "3">>}

\* a panel after n calls of add_calculation, the first for 1 + 1, the others for 0
Filled(n) ==
    [history |-> [k \in 1..n |-> [expression |-> IF k = 1 THEN <<"1", " ", "+", " ", "1">> ELSE <<"0">>,
                                  result |-> IF k = 1 THEN "2" ELSE "0",
                                  timestamp |-> NoTimestamp]],
     history_list |-> [k \in 1..n |-> IF k = 1 THEN "1 + 1 = 2" ELSE "0 = 0"]]

\* the panel is empty, or has room for two, one or no more items
InitHistory ==
    /\ tree \in {"core", "old"}
    /\ doc \in SeqsUpTo(HistoryLines, MaxLines)
    /\ current = "Document"
    /\ tabs = EmptyMap
    /\ namespace = base_namespace
    /\ variables = EmptyMap
    /\ line_results = EmptyMap
    /\ shown = EmptyMap
    /\ inspector = EmptyMap
    /\ timer = {[editor |-> "Document", remaining |-> Delay]}
    /\ left = EmptyMap
    /\ edits = 0
    /\ formatted = NotCalled(NoneVal)
    /\ seg = Segmenting(<<>>)
    /\ history_widget \in {Filled(n) : n \in {0, HistoryLimit - 2, HistoryLimit - 1, HistoryLimit}}
    /\ last = [op |-> "open", arg |-> "", text |-> <<>>, ran |-> FALSE]
    /\ lastPass = NoPassYet

\* the "Clear History" button
clear_history ==
    /\ history_widget' = NoHistory
    /\ last' = [op |-> "clear_history", arg |-> "", text |-> <<>>, ran |-> FALSE]
    /\ UNCHANGED <<tree, doc, current, tabs, namespace, variables, line_results, shown,
                   inspector, timer, left, formatted, seg, edits, lastPass>>

NextHistory == TimerFires \/ RecalculateAll \/ clear_history
SpecHistory == InitHistory /\ [][NextHistory]_vars

\* documents that define a function, call it and assign its result
FuncLines == {<<"d", "e", "f", " ", "f", "(", "n", ")", ":", " ", "r", "e", "t", "u", "r", "n", " ", "n", " ", "*", " ", "2">>,
              <<"d", "e", "f", " ", "f", "(", "n", ")", ":">>,
              <<" ", " ", " ", " ", "r", "e", "t", "u", "r", "n", " ", "n", " ", "*", " ", "2">>,
              <<"f", "(", "3", ")">>,
              <<"y", " ", "=", " ", "f", "(", "3", ")">>}
InitFunc == InitWith(FuncLines)
NextFunc == TypeLine(FuncLines) \/ RemoveLine \/ TimerFires \/ RecalculateAll
SpecFunc == InitFunc /\ [][NextFunc]_vars

\* documents with blank lines, comments and a function definition
InitLayout == InitWith(LayoutLines)
NextLayout == TypeLine(LayoutLines) \/ RemoveLine \/ TimerFires \/ RecalculateAll
SpecLayout == InitLayout /\ [][NextLayout]_vars

(***************************************************************************)
(* Properties of a pass, stated over lastPass: the text the pass ran over  *)
(* and, unit by unit, what it read and what it left                        *)
(***************************************************************************)
\* the bindings unit u made: the names it added to or changed in the variable store
BindingsOf(u) ==
    [n \in {m \in DOMAIN u.varsAfter : m \notin DOMAIN u.varsBefore \/ u.varsAfter[m] # u.varsBefore[m]}
       |-> u.varsAfter[n]]

\* the bindings made by the first k units of trace t, the latest one of a name last
RECURSIVE BindingsUpTo(_, _)
BindingsUpTo(t, k) == IF k = 0 THEN EmptyMap ELSE Update(BindingsUpTo(t, k - 1), BindingsOf(t[k]))

\* the entries written by the first k units of trace t
RECURSIVE EntriesUpTo(_, _)
EntriesUpTo(t, k) ==
    IF k = 0 THEN EmptyMap
    ELSE IF t[k].entry.has THEN Put(EntriesUpTo(t, k - 1), t[k].line_num, t[k].entry.text)
    ELSE EntriesUpTo(t, k - 1)

ExampleDoc == <<<<"x", " ", "=", " ", "2">>, <<"y", " ", "=", " ", "x", " ", "+", " ", "3">>, <<"y">>>>

\* C1: within a pass the units are evaluated in buffer order; a unit the pass
\* takes as the assignment name = expr gets the value of expr evaluated against
\* the base namespace and exactly the bindings of the units before it (the latest
\* binding of a name), binds name to it in namespace and variable store, and its
\* entry is "name = <formatted value>"; the text x = 2 / y = x + 3 / y gives
\* {0: "x = 2", 1: "y = 5", 2: "5"}
C1_AssignmentBindsInOrder ==
    lastPass.valid =>
        LET t == lastPass.trace
        IN  /\ \A k \in 1..(Len(t) - 1) : t[k].line_num < t[k + 1].line_num
            /\ \A k \in 1..Len(t) :
                  t[k].kind = "Assigned" =>
                     LET u == t[k]
                         r == EvalLine(strip(splitRest(u.code, "=")),
                                       Update(base_namespace, BindingsUpTo(t, k - 1)))
                     IN  /\ r.ok /\ u.val = r.val
                         /\ u.name \in DOMAIN u.nsAfter /\ u.nsAfter[u.name] = u.val
                         /\ u.name \in DOMAIN u.varsAfter /\ u.varsAfter[u.name] = u.val
                         /\ u.entry = Entry(u.name \o " = " \o format_result(u.val))
                         /\ u.line_num \in DOMAIN line_results
                         /\ line_results[u.line_num] = u.entry.text
            /\ lastPass.text = ExampleDoc =>
                  line_results = (0 :> "x = 2") @@ (1 :> "y = 5") @@ (2 :> "5")

\* a pass over x = 2 / x = x + 3 / y = x + 3 has run: y is 8, from the latest x
C1_Witness ==
    /\ lastPass.valid
    /\ lastPass.text = <<<<"x", " ", "=", " ", "2">>, <<"x", " ", "=", " ", "x", " ", "+", " ", "3">>, <<"y", " ", "=", " ", "x", " ", "+", " ", "3">>>>
    /\ "y" \in DOMAIN variables /\ variables["y"] = IntVal(8)
    /\ line_results = (0 :> "x = 2") @@ (1 :> "x = 5") @@ (2 :> "y = 8")

\* the text holds expressions only: no line holds an "="
ExpressionsOnly(d) == \A i \in 1..Len(d) : ~contains(d[i], <<"=">>)

\* C2: for a text of single-line expressions with no assignment, a pass over the
\* same text as the pass before it gives the same line-result map
C2_ExpressionPassIdempotent ==
    (lastPass.valid /\ lastPass.repeat /\ ExpressionsOnly(lastPass.text)) =>
        line_results = lastPass.before

\* the inspector set y to 7 and the pass that followed ran over y / 2 + 3 again
C2_Witness ==
    /\ lastPass.valid /\ lastPass.repeat
    /\ lastPass.text = <<<<"y">>, <<"2", " ", "+", " ", "3">>>>
    /\ last.op = "edit_variable" /\ last.arg = "y" /\ last.ran
    /\ "y" \in DOMAIN lastPass.start.namespace
    /\ 1 \in DOMAIN line_results /\ line_results[1] = "5"

C7_MapReplacedEveryPass ==
    lastPass.valid =>
        /\ line_results = EntriesUpTo(lastPass.trace, Len(lastPass.trace))
        /\ DOMAIN shown = {l + 1 : l \in DOMAIN line_results}
        /\ \A l \in DOMAIN line_results : shown[l + 1] = line_results[l]

\* a pass has dropped an entry of the map it started with
C7_Witness ==
    /\ lastPass.valid
    /\ \E l \in DOMAIN lastPass.start.line_results : l \notin DOMAIN line_results

\* C3: a pass starts from a copy of the base namespace and an empty variable
\* store, and after every unit of it (a block included) and at its end the
\* namespace is the base namespace plus exactly the bindings of the units so far
C3_NamespaceIsBasePlusBindings ==
    lastPass.valid =>
        LET t == lastPass.trace
        IN  /\ Len(t) > 0 => t[1].nsBefore = base_namespace /\ t[1].varsBefore = EmptyMap
            /\ \A k \in 1..Len(t) : t[k].nsAfter = Update(base_namespace, BindingsUpTo(t, k))
            /\ namespace = Update(base_namespace, BindingsUpTo(t, Len(t)))

\* C4: a unit that fails writes "Error: <message>" at its start line and leaves
\* namespace and variable store as they were before it, and the units after it
\* are evaluated
C4_FailureLeavesStateUntouched ==
    lastPass.valid =>
        LET t == lastPass.trace
        IN  /\ Len(t) = Len(Units(tree, toLines(lastPass.text)))
            /\ \A k \in 1..Len(t) :
                  t[k].kind = "Failed" =>
                     /\ t[k].entry = Entry("Error: " \o t[k].msg)
                     /\ t[k].nsAfter = t[k].nsBefore
                     /\ t[k].varsAfter = t[k].varsBefore

\* the expression of unit u (the right-hand side of an assignment) mentions name n
Mentions(u, n) ==
    LET tokens == Tokens(IF u.mode = "assign" THEN splitRest(u.code, "=") ELSE u.code, 1)
    IN  \E i \in 1..Len(tokens) : tokens[i].k = "name" /\ tokens[i].s = n

\* C6: after delete_variable of a name, every line after the one that defines the
\* name and whose expression mentions it has a Failed outcome in the pass that
\* delete_variable runs
C6_DeletedVariableFailsDependents ==
    (lastPass.valid /\ last.op = "delete_variable" /\ last.ran) =>
        LET t == lastPass.trace
        IN  \A j, k \in 1..Len(t) :
               (j < k /\ t[j].mode = "assign" /\ t[j].name = last.arg /\ Mentions(t[k], last.arg))
                  => t[k].kind = "Failed"

\* the line holds no code: it is blank or a comment
NoCode(line) == LET stripped == strip(line) IN stripped = <<>> \/ Head(stripped) = "#"

\* C8: every key of line_results is the start line of a unit that holds code:
\* no blank line, no comment line and no continuation line of a block has an entry
C8_KeysAreUnitStarts ==
    lastPass.valid =>
        LET units == Units(tree, toLines(lastPass.text))
        IN  \A l \in DOMAIN line_results :
               /\ l + 1 \in 1..Len(lastPass.text)
               /\ ~NoCode(lastPass.text[l + 1])
               /\ \E k \in 1..Len(units) : units[k].line_num = l /\ ~NoCode(units[k].code)

\* a pass of tree "old" over a comment line and a two-line block: one entry, at
\* the block's first line
C8_Witness ==
    /\ lastPass.valid
    /\ tree = "old"
    /\ lastPass.text = <<<<"#", " ", "c">>, <<"d", "e", "f", " ", "f", "(", "n", ")", ":">>, <<" ", " ", " ", " ", "r", "e", "t", "u", "r", "n", " ", "n", " ", "*", " ", "2">>>>
    /\ line_results = (1 :> "executed")

\* C9: every unit that holds code has an entry at its start line: the formatted
\* value for an expression or a block ("None" for the value None), "name =
\* <formatted value>" for an assignment, "Error: <message>" for a failure
C9_EveryUnitHasItsEntry ==
    lastPass.valid =>
        LET t == lastPass.trace
        IN  \A k \in 1..Len(t) :
               ~NoCode(t[k].code) =>
                  /\ t[k].line_num \in DOMAIN line_results
                  /\ line_results[t[k].line_num] =
                        CASE t[k].kind = "Failed" -> "Error: " \o t[k].msg
                          [] t[k].kind = "Assigned" -> t[k].name \o " = " \o format_result(t[k].val)
                          [] OTHER -> format_result(t[k].val)

\* position i of the line holds an "=" that is not part of ==, !=, <= or >=
AssignmentSignAt(line, i) ==
    /\ line[i] = "="
    /\ ~(i > 1 /\ line[i - 1] \in {"=", "!", "<", ">"})
    /\ ~(i < Len(line) /\ line[i + 1] = "=")

AssignmentSigns(line) == {i \in 1..Len(line) : AssignmentSignAt(line, i)}

\* C10: a single line is taken as an assignment exactly when it holds an "=" that
\* is not part of a comparison operator, and is then split at the first such "=";
\* a line whose "=" all belong to comparison operators is evaluated as an
\* expression and its entry is the boolean
C10_AssignmentExactlyOnPlainEquals ==
    lastPass.valid =>
        LET t == lastPass.trace
        IN  \A k \in 1..Len(t) :
               (~t[k].is_multiline /\ ~NoCode(t[k].code)) =>
                  LET line == t[k].code
                      signs == AssignmentSigns(line)
                  IN  IF signs # {}
                      THEN LET first == CHOOSE i \in signs : \A j \in signs : i <= j
                               r == EvalLine(strip(SubSeq(line, first + 1, Len(line))), t[k].nsEval)
                           IN  /\ t[k].mode = "assign"
                               /\ r.ok => /\ t[k].kind = "Assigned"
                                          /\ t[k].name = str(strip(SubSeq(line, 1, first - 1)))
                                          /\ t[k].val = r.val
                      ELSE LET r == EvalLine(line, t[k].nsEval)
                           IN  /\ t[k].mode = "expr"
                               /\ (r.ok /\ contains(line, <<"=">>)) =>
                                     /\ r.val.t = "bool"
                                     /\ t[k].entry = Entry(format_result(r.val))

(***************************************************************************)
(* Blocks (tree "old")                                                     *)
(***************************************************************************)
\* the names the statements of a block bind at top level: its defs and assignments
TopLevelNames(code) ==
    LET sts == ParseTop(LogicalLines(split(code, "\n")), 1).sts
    IN  {sts[i].name : i \in {j \in 1..Len(sts) : sts[j].k \in {"def", "assign"}}}

\* a block unit whose statements executed
BlockRan(u) == u.is_multiline /\ u.kind \in {"Executed", "ExecutedOnly"}

FunctionDoc == <<<<"d", "e", "f", " ", "f", "(", "n", ")", ":">>, <<" ", " ", " ", " ", "r", "e", "t", "u", "r", "n", " ", "n", " ", "*", " ", "2">>, <<"f", "(", "3", ")">>>>

\* C11: the three lines def f(n): / return n * 2 / f(3) are one block unit
\* anchored at line 0 whose execution writes the single entry "6" at line 0;
\* every name a block binds at top level is in the variable store after the
\* block and is in the working namespace, with the store's value, of every
\* later unit of the pass that is evaluated
C11_BlockBindsForLaterUnits ==
    lastPass.valid /\ tree = "old" =>
        LET t == lastPass.trace
        IN  /\ lastPass.text = FunctionDoc =>
                  /\ Len(t) = 1 /\ t[1].is_multiline /\ t[1].line_num = 0
                  /\ t[1].kind = "Executed"
                  /\ line_results = (0 :> "6")
                  /\ "f" \in DOMAIN variables
            /\ \A k \in 1..Len(t) :
                  BlockRan(t[k]) =>
                     \A n \in TopLevelNames(t[k].code) :
                        /\ n \in DOMAIN t[k].varsAfter
                        /\ \A j \in (k + 1)..Len(t) :
                              t[j].mode # "none" =>
                                 /\ n \in DOMAIN t[j].nsEval
                                 /\ t[j].nsEval[n] = t[j].varsBefore[n]

\* a block that binds f is followed by a unit that calls f and gets 6
C11_Witness ==
    /\ lastPass.valid /\ tree = "old"
    /\ \E k \in 1..Len(lastPass.trace) : \E j \in 1..Len(lastPass.trace) :
          /\ k < j /\ BlockRan(lastPass.trace[k])
          /\ "f" \in TopLevelNames(lastPass.trace[k].code)
          /\ lastPass.trace[j].kind = "Evaluated" /\ lastPass.trace[j].val = IntVal(6)

\* strip of the last line of a block
LastLine(code) == strip(Last(split(strip(code), "\n")))

\* the last line of the block is one whose evaluation is attempted
TrailingAttempted(code) ==
    LastLine(code) # <<>> /\ ~\E kw \in TrailingKeywords : startswith(LastLine(code), kw)

\* exec of the statements of block unit u, in the namespace the unit was given
StatementsRun(u) ==
    LET compiled == ParseTop(LogicalLines(split(u.code, "\n")), 1)
    IN  IF compiled.ok
        THEN ExecStmts(compiled.sts, 1, EmptyMap, Put(u.nsEval, "__builtins__", ModuleVal("builtins")))
        ELSE ExecRaise(Raise("SyntaxError", "invalid syntax"))

\* eval of the last line of block unit u after its statements bound loc
TrailingOutcome(u, loc) ==
    LET tail == ParseWhole(Tokens(LastLine(u.code), 1))
        globals == Put(u.nsEval, "__builtins__", ModuleVal("builtins"))
    IN  IF tail.ok THEN Eval(tail.ast, Env(loc, globals, globals, TRUE))
        ELSE Raise("SyntaxError", "invalid syntax")

\* C12: a block whose statements execute never fails because of its last line:
\* the unit is executed and the names the statements bound are in the variable
\* store; when the evaluation of the last line is not attempted (the line
\* starts with one of the listed keywords) or fails, the unit's outcome is
\* ExecutedOnly with the entry "executed" at the block's first line
C12_TrailingFailureIsExecutedOnly ==
    lastPass.valid /\ tree = "old" =>
        \A k \in 1..Len(lastPass.trace) :
           LET u == lastPass.trace[k]
               x == IF u.is_multiline THEN StatementsRun(u) ELSE ExecRaise(Raise("", ""))
           IN  u.is_multiline /\ x.ok =>
                  /\ u.kind \in {"Executed", "ExecutedOnly"}
                  /\ u.varsAfter = Update(u.varsBefore, x.loc)
                  /\ (~TrailingAttempted(u.code) \/ ~TrailingOutcome(u, x.loc).ok) =>
                        /\ u.kind = "ExecutedOnly"
                        /\ u.entry = Entry("executed")
                        /\ u.line_num \in DOMAIN line_results
                        /\ line_results[u.line_num] = "executed"

\* a block ends with the assignment y = f(3): its statements run, the
\* evaluation of the last line is attempted and fails, the unit is executed
C12_Witness ==
    /\ lastPass.valid /\ tree = "old"
    /\ \E k \in 1..Len(lastPass.trace) :
          LET u == lastPass.trace[k]
          IN  /\ u.is_multiline /\ TrailingAttempted(u.code)
              /\ StatementsRun(u).ok /\ ~TrailingOutcome(u, StatementsRun(u).loc).ok
              /\ u.kind = "ExecutedOnly" /\ "y" \in DOMAIN u.varsAfter

(***************************************************************************)
(* The calculation history                                                 *)
(***************************************************************************)
\* C13: history_widget.add_calculation is called once for every unit of a pass
\* that was evaluated, assigned or executed (a block that executes without a
\* value included), in the order of the units, and for no blank, comment or
\* failed unit; recorded is the call made while the unit was evaluated
C13_HistoryOncePerSuccessfulUnit ==
    lastPass.valid =>
        \A k \in 1..Len(lastPass.trace) :
           lastPass.trace[k].recorded
              <=> lastPass.trace[k].kind \in {"Evaluated", "Assigned", "Executed", "ExecutedOnly"}

(***************************************************************************)
(* The debounce of the edits                                               *)
(***************************************************************************)
\* the one timer an edit of the current editor leaves: a new one, its whole
\* interval ahead
FreshTimer == {[editor |-> current, remaining |-> Delay]}

\* C14: every edit stops the pending timer and starts a new single-shot timer
\* of 500 ms, so at most one timer is pending; a timer times out only when its
\* whole interval has passed since the last edit, which for a burst of edits
\* each less than 500 ms after the one before is after the last of them; the
\* pass it runs is over the text the editor holds then, no timer is left
\* after it, and a pending timer does lead to that pass
C14_Debounce ==
    /\ [](Cardinality(timer) <= 1)
    /\ [][edits' # edits => timer' = FreshTimer]_vars
    /\ [][timer' # timer /\ edits' = edits =>
              /\ timer = FreshTimer /\ timer' = {}
              /\ last'.op = "timer" /\ last'.ran
              /\ lastPass'.valid /\ lastPass'.text = doc /\ doc' = doc]_vars
    /\ (timer # {}) ~> (timer = {} /\ last.op = "timer" /\ lastPass.text = doc)

\* an edit made half an interval after the text was set, before any pass ran:
\* the timer of the first edit is gone and the new one has 500 ms to run
C14_Witness ==
    /\ last.op = "edit" /\ edits >= 1 /\ left = EmptyMap
    /\ timer = FreshTimer

(***************************************************************************)
(* The engine's fields between operations                                  *)
(***************************************************************************)
\* C15: between operations every entry of the variable store is an entry of
\* the working namespace with the same value, and no entry of the base namespace
C15_StoreWithinNamespace ==
    \A n \in DOMAIN variables :
       /\ n \in DOMAIN namespace /\ namespace[n] = variables[n]
       /\ ~(n \in DOMAIN base_namespace /\ base_namespace[n] = variables[n])

\* C16: the engine's state is kept per open document: the variable store and
\* the line results the program holds for a document are the ones the last
\* pass over that document left, whatever passes ran over other documents
\* since; the program holds self.variables and self.line_results for a document
C16_EngineStatePerDocument ==
    \A editor \in DOMAIN left :
       /\ variables = left[editor].variables
       /\ line_results = left[editor].line_results

(***************************************************************************)
(* The variable inspector's requests                                       *)
(***************************************************************************)
\* C17: when clear_variables returns the variable store is empty and the
\* working namespace equals the base namespace, whatever the document holds
C17_ClearLeavesStoreEmpty ==
    last.op = "clear_variables" => variables = EmptyMap /\ namespace = base_namespace

\* the step is a call of the request named op
Called(op) == last'.op = op

\* the step ran one pass over the whole text of the current editor, every unit
\* of it, starting from the engine's fields as the request left them
FullPassFrom(vs, ns) ==
    /\ last'.ran /\ lastPass'.valid
    /\ lastPass'.editor = current /\ lastPass'.text = doc
    /\ lastPass'.start.variables = vs /\ lastPass'.start.namespace = ns
    /\ Len(lastPass'.trace) = Len(Units(tree, toLines(doc)))
    /\ \A k \in 1..Len(lastPass'.trace) :
          lastPass'.trace[k].code = Units(tree, toLines(doc))[k].code

\* the step changed no field of the engine and ran no pass
Rejected ==
    /\ ~last'.ran
    /\ UNCHANGED <<namespace, variables, line_results, shown, inspector, lastPass>>

\* C18 as stated: every call of delete_variable and of edit_variable is
\* followed by a full pass before it returns
C18_EveryRequestRunsAPass ==
    last.op \in {"delete_variable", "edit_variable"} => last.ran

\* C18 amended: delete_variable(name) for a name in the variable store, and
\* edit_variable(name, text) for a text that evaluates against the base
\* namespace, run one full pass over the current document before they return,
\* from the store without the name, or with the name bound to the value of the
\* text; a call for a name not in the store, or with a text that does not
\* evaluate, changes nothing and runs no pass; no call runs part of a pass
C18_RequestRunsFullPassOrNothing ==
    [][/\ Called("delete_variable") =>
             IF last'.arg \in DOMAIN variables
             THEN FullPassFrom(Del(variables, last'.arg), Del(namespace, last'.arg))
             ELSE Rejected
       /\ Called("edit_variable") =>
             LET new_value == EvalLine(last'.text, base_namespace)
             IN  IF new_value.ok
                 THEN FullPassFrom(Put(variables, last'.arg, new_value.val),
                                   Put(namespace, last'.arg, new_value.val))
                 ELSE Rejected]_vars

\* edit_variable("y", "7") returned after a pass that started with y bound to 7
C18_Witness ==
    /\ last.op = "edit_variable" /\ last.text = <<"7">> /\ last.ran
    /\ lastPass.valid /\ Len(lastPass.trace) > 0
    /\ "y" \in DOMAIN lastPass.start.variables /\ lastPass.start.variables["y"] = IntVal(7)

\* C19: format_result of a complex value is the format of its real part when
\* the imaginary part is zero; else, when the real part is zero, the format of
\* the imaginary part as a float followed by "j"; else "(" real, an explicit
\* "+" exactly when the imaginary part is not negative, imag, "j)"
C19_ComplexFormat ==
    formatted.called /\ formatted.result.t = "complex"
        => formatted.text = FormatComplexRecursive(formatted.result)

\* format_result of the program that runs
FormatOf(result) == IF tree = "old" THEN format_result(result) ELSE format_result_core(result)

\* C20: format_result of a list or a tuple is "[", the formats of its elements
\* joined by ", ", "]"; of more than 10 elements only the first 3 are listed,
\* followed by ", ... (N items)" with N the length
C20_SequenceFormat ==
    formatted.called /\ formatted.result.t \in {"list", "tuple"}
        => LET items == formatted.result.items
               listed == IF Len(items) > 10 THEN SubSeq(items, 1, 3) ELSE items
           IN  formatted.text =
                   "[" \o Join([i \in 1..Len(listed) |-> FormatOf(listed[i])])
                       \o (IF Len(items) > 10
                           THEN ", ... (" \o NatStr(Len(items)) \o " items)" ELSE "")
                       \o "]"

\* C20 on src/old/calculator.py alone, whose format_result has the branch
C20_SequenceFormatOld ==
    tree = "old" => C20_SequenceFormat

\* abs(x) > 10^k and abs(x) < 10^k, by the arithmetic of m * 10^e for a
\* mantissa of nine digits at most
AbsAbove(x, k) ==
    IF x.e >= k THEN (x.m >= 1 /\ x.e > k) \/ (x.m > 1 /\ x.e = k)
    ELSE k - x.e <= 9 /\ x.m > Pow10(k - x.e)
AbsBelow(x, k) ==
    IF x.e >= k THEN x.m = 0
    ELSE k - x.e > 9 \/ x.m < Pow10(k - x.e)

\* C21: format_result of a float is in scientific notation with 6 decimals
\* exactly when abs(value) > 1e10 or 0 < abs(value) < 1e-4, else in general
\* notation with 6 significant digits; 1e10, 1e-4 and 0.0 are in general
\* notation, a third is "0.333333", 1e12 is "1.000000e+12"; a bool is shown
\* as True or False, never as a number
C21_FloatNotation ==
    formatted.called =>
        /\ formatted.result.t = "float" =>
               formatted.text =
                   IF \/ AbsAbove(formatted.result, 10)
                      \/ formatted.result.m # 0 /\ AbsBelow(formatted.result, -4)
                   THEN FormatE(formatted.result, 6) ELSE FormatG(formatted.result, 6)
        /\ formatted.result = FloatVal(FALSE, 1, 10) => formatted.text = "1e+10"
        /\ formatted.result = FloatVal(FALSE, 1, -4) => formatted.text = "0.0001"
        /\ formatted.result = FloatVal(FALSE, 0, 0) => formatted.text = "0"
        /\ formatted.result = FloatVal(FALSE, 333333333, -9) => formatted.text = "0.333333"
        /\ formatted.result = FloatVal(FALSE, 1, 12) => formatted.text = "1.000000e+12"
        /\ formatted.result.t = "bool" => formatted.text \in {"True", "False"}

\* format_result(1e10) returned "1e+10"
C21_Witness ==
    formatted.called /\ formatted.result = FloatVal(FALSE, 1, 10) /\ formatted.text = "1e+10"

\* C22: format_result of a value without a formatting rule of its own (a
\* string, a function, a set) is str(value) when that has at most 200
\* characters, else its first 200 characters followed by "..."; it has 203
\* characters at most
C22_GenericStrTruncated ==
    formatted.called /\ formatted.result.t \in {"str", "function", "set"}
        => With(IF formatted.result.t = "set" THEN Repr(formatted.result)
                ELSE StrOf(formatted.result), LAMBDA generic :
                /\ formatted.text = IF Len(generic) <= 200 THEN generic
                                    ELSE SubSeq(generic, 1, 200) \o "..."
                /\ Len(formatted.text) <= 203)

\* C22 for strings and functions, and for every such value in
\* src/src/core/calculator.py
C22_StringsAreTruncated ==
    formatted.result.t \in {"str", "function"} \/ tree = "core" => C22_GenericStrTruncated

\* the call of process_multiline_statements returns what the passes are given
SegReturnsTheUnits ==
    seg.returned => seg.processed = process_multiline_statements(seg.lines)

\* the line the next iteration of the segmenter processes, and the pending
\* buffer with that line appended
SegLineNow == seg.lines[seg.i + 1]
SegJoined == seg.st.current_block \o SegLineNow \o <<"\n">>

\* the line number the pending buffer is anchored at once SegLineNow is in it
SegAnchor == IF seg.st.current_block = <<>> THEN seg.i ELSE seg.st.block_start

\* an iteration of the segmenter over a line that holds code
SegCodeStep == seg'.i = seg.i + 1 /\ ~IsBlankOrCommentLine(strip(SegLineNow))

\* C23: a line that holds code is appended to the pending buffer when the
\* buffer is not empty, or the line ends with ":", or it starts with a
\* compound-statement keyword; an appended line that ends with ":" adds one to
\* the depth; the buffer is closed as one Block unit anchored at its first
\* line, and reset, exactly when after the append the depth is zero and the
\* line does not end with ":", and the closing line is part of the block
C23_BlockRule ==
    [][SegCodeStep =>
         IF \/ seg.st.current_block # <<>>
            \/ endswith(strip(SegLineNow), <<":">>)
            \/ \E kw \in BlockKeywords : startswith(strip(SegLineNow), kw)
         THEN /\ endswith(strip(SegLineNow), <<":">>)
                    => seg'.st.indent_level = seg.st.indent_level + 1
              /\ IF seg'.st.indent_level = 0 /\ ~endswith(strip(SegLineNow), <<":">>)
                 THEN /\ seg'.st.processed =
                             Append(seg.st.processed, Item(SegAnchor, strip(SegJoined), TRUE))
                      /\ seg'.st.current_block = <<>>
                 ELSE /\ seg'.st.processed = seg.st.processed
                      /\ seg'.st.current_block = SegJoined
         ELSE /\ seg'.st.current_block = <<>>
              /\ seg'.st.processed = Append(seg.st.processed, Item(seg.i, SegLineNow, FALSE))]_vars

\* the text "if x:" / "    y = 1" / "z = 2" was closed by its third line as one
\* Block unit anchored at line 0
C23_Witness ==
    /\ seg.lines = <<<<"i", "f", " ", "x", ":">>, <<" ", " ", " ", " ", "y", " ", "=", " ", "1">>, <<"z", " ", "=", " ", "2">>>>
    /\ seg.i = 3 /\ seg.st.current_block = <<>> /\ Len(seg.st.processed) = 1
    /\ seg.st.processed[1].is_multiline /\ seg.st.processed[1].line_num = 0
    /\ seg.st.processed[1].code = strip(<<"i", "f", " ", "x", ":">> \o <<"\n">> \o <<" ", " ", " ", " ", "y", " ", "=", " ", "1">> \o <<"\n">> \o <<"z", " ", "=", " ", "2">>)

\* an iteration of the segmenter over a blank or comment-only line
SegBlankStep == seg'.i = seg.i + 1 /\ IsBlankOrCommentLine(strip(SegLineNow))

\* a line that is blank, a comment, or a statement that opens no block
IsPlainLine(line) ==
    \/ IsBlankOrCommentLine(strip(line))
    \/ ~endswith(strip(line), <<":">>) /\ ~\E kw \in BlockKeywords : startswith(strip(line), kw)

\* C24: a blank or comment-only line met while a block is accumulated is
\* appended to the buffer, leaves the depth as it is and closes nothing; met
\* otherwise it is at once a SingleLine unit at its own line number; so a text
\* of simple, blank and comment lines has one SingleLine unit for every line
C24_BlankAndCommentLines ==
    /\ [][SegBlankStep =>
             /\ seg'.st.indent_level = seg.st.indent_level
             /\ IF seg.st.current_block # <<>>
                THEN /\ seg'.st.current_block = SegJoined
                     /\ seg'.st.processed = seg.st.processed
                ELSE /\ seg'.st.current_block = <<>>
                     /\ seg'.st.processed =
                            Append(seg.st.processed, Item(seg.i, SegLineNow, FALSE))]_vars
    /\ [](seg.returned /\ (\A k \in 1..Len(seg.lines) : IsPlainLine(seg.lines[k]))
            => seg.processed = [k \in 1..Len(seg.lines) |-> Item(k - 1, seg.lines[k], FALSE)])

\* in the text "if x:" / "" / "    y = 1" the blank line went into the block
\* that "if x:" opened, which stayed open at depth 1
C24_Witness ==
    /\ seg.lines = <<<<"i", "f", " ", "x", ":">>, <<>>, <<" ", " ", " ", " ", "y", " ", "=", " ", "1">>>>
    /\ seg.i = 2 /\ seg.st.processed = <<>> /\ seg.st.indent_level = 1
    /\ seg.st.current_block = <<"i", "f", " ", "x", ":">> \o <<"\n", "\n">>

\* the lines a..b (numbered from 0) of the text, each followed by a newline
RECURSIVE LinesText(_, _, _)
LinesText(lines, a, b) ==
    IF a > b THEN <<>> ELSE lines[a + 1] \o <<"\n">> \o LinesText(lines, a + 1, b)

\* the last line of unit k of the units: the line before the next unit's first
LastLineOf(units, k, lines) ==
    IF k = Len(units) THEN Len(lines) - 1 ELSE units[k + 1].line_num - 1

\* C25: the units of a text have strictly increasing start lines, the first
\* is line 0, each unit holds the lines from its start to the line before the
\* next unit's start (the last unit to the last line), a SingleLine unit one
\* line, so that every line is in exactly one unit; a buffer left open at the
\* end of input is the final Block unit, anchored at its first line
C25_UnitsPartitionTheLines ==
    seg.returned =>
        /\ (seg.lines = <<>>) = (seg.processed = <<>>)
        /\ seg.processed # <<>> => seg.processed[1].line_num = 0
        /\ \A k \in 1..Len(seg.processed) :
               /\ seg.processed[k].line_num <= LastLineOf(seg.processed, k, seg.lines)
               /\ IF seg.processed[k].is_multiline
                  THEN seg.processed[k].code =
                           strip(LinesText(seg.lines, seg.processed[k].line_num,
                                           LastLineOf(seg.processed, k, seg.lines)))
                  ELSE /\ seg.processed[k].line_num = LastLineOf(seg.processed, k, seg.lines)
                       /\ seg.processed[k].code = seg.lines[seg.processed[k].line_num + 1]
        /\ seg.st.current_block # <<>> =>
               seg.processed = Append(seg.st.processed,
                                      Item(seg.st.block_start, strip(seg.st.current_block), TRUE))

\* the text "z = 2" / "if x:" / "    y = 1" ended inside the block that line 1
\* opened, which is the second and last unit
C25_Witness ==
    /\ seg.lines = <<<<"z", " ", "=", " ", "2">>, <<"i", "f", " ", "x", ":">>, <<" ", " ", " ", " ", "y", " ", "=", " ", "1">>>>
    /\ seg.returned /\ seg.st.current_block # <<>> /\ Len(seg.processed) = 2
    /\ seg.processed[2] = Item(1, <<"i", "f", " ", "x", ":">> \o <<"\n">> \o <<" ", " ", " ", " ", "y", " ", "=", " ", "1">>, TRUE)

\* C26: before every line of the text is processed (and at the end of input)
\* the pending buffer is non-empty exactly when the depth is greater than
\* zero, and the depth is never negative; so no iteration takes the branch
\* that closes an open buffer before a SingleLine unit
C26_BufferOpenIffDepthPositive ==
    /\ []((seg.st.current_block # <<>>) = (seg.st.indent_level > 0))
    /\ [](seg.st.indent_level >= 0)
    /\ [][~(/\ SegCodeStep
            /\ ~IsMultiline(seg.st, strip(SegLineNow))
            /\ seg.st.current_block # <<>>)]_vars

\* after two header lines the buffer is open at depth 2
C26_Witness ==
    /\ ~seg.returned /\ seg.i = 2 /\ seg.i < Len(seg.lines)
    /\ seg.st.indent_level = 2 /\ seg.st.current_block # <<>>

\* a line that ends with ":" once stripped, and a line that holds code, does
\* not end with ":" and begins with neither four spaces nor a tab
IsColonLine(line) == endswith(strip(line), <<":">>)
IsUnindentedLine(line) ==
    /\ ~IsBlankOrCommentLine(strip(line)) /\ ~IsColonLine(line)
    /\ ~startswith(line, <<" ", " ", " ", " ">>) /\ ~startswith(line, <<"\t">>)

\* how many of the lines a..b (numbered from 0) of the text satisfy Is
CountLines(lines, a, b, Is(_)) == Cardinality({n \in a..b : Is(lines[n + 1])})

\* unit k of the returned units was closed by a line, not by the end of input
ClosedByLine(k) == ~(k = Len(seg.processed) /\ seg.st.current_block # <<>>)

\* C27: the depth goes up by one at every appended line that ends with ":",
\* down by one, not below zero, at an appended line that holds code, does not
\* end with ":" and is not indented, and changes at no other line; so a Block
\* unit with k >= 1 lines ending with ":" that a line closed holds exactly k
\* unindented lines, the last of which is its last line (a Block unit with no
\* line ending with ":" is one line long), and a unit with a second header
\* takes in unindented lines that follow its body
C27_DepthCountsHeaders ==
    /\ [][seg'.i = seg.i + 1 =>
             seg'.st.indent_level =
                 IF \/ IsBlankOrCommentLine(strip(SegLineNow))
                    \/ ~(\/ seg.st.current_block # <<>>
                         \/ IsColonLine(SegLineNow)
                         \/ \E kw \in BlockKeywords : startswith(strip(SegLineNow), kw))
                 THEN seg.st.indent_level
                 ELSE IF IsColonLine(SegLineNow) THEN seg.st.indent_level + 1
                 ELSE IF IsUnindentedLine(SegLineNow) /\ seg.st.indent_level > 0
                      THEN seg.st.indent_level - 1
                 ELSE seg.st.indent_level]_vars
    /\ [](seg.returned =>
            \A k \in 1..Len(seg.processed) :
                seg.processed[k].is_multiline /\ ClosedByLine(k) =>
                    With(CountLines(seg.lines, seg.processed[k].line_num,
                                    LastLineOf(seg.processed, k, seg.lines), IsColonLine),
                         LAMBDA colons :
                         IF colons = 0
                         THEN LastLineOf(seg.processed, k, seg.lines) = seg.processed[k].line_num
                         ELSE /\ CountLines(seg.lines, seg.processed[k].line_num,
                                            LastLineOf(seg.processed, k, seg.lines),
                                            IsUnindentedLine) = colons
                              /\ IsUnindentedLine(
                                     seg.lines[LastLineOf(seg.processed, k, seg.lines) + 1])))

\* the text "if x:" / "else:" / "z = 2" / "z = 2" is one Block unit: the first
\* "z = 2" left the depth at 1 and the second closed the block
C27_Witness ==
    /\ seg.lines = <<<<"i", "f", " ", "x", ":">>, <<"e", "l", "s", "e", ":">>, <<"z", " ", "=", " ", "2">>, <<"z", " ", "=", " ", "2">>>>
    /\ seg.returned /\ Len(seg.processed) = 1 /\ seg.st.current_block = <<>>
    /\ seg.processed[1].is_multiline /\ seg.processed[1].line_num = 0

\* the step leaves the engine as a plain recalculation of the current document
\* from the state before the request leaves it
AsPlainRecalculation ==
    With(RunPass(tree, doc, Engine), LAMBDA plain :
         /\ last'.ran
         /\ namespace' = plain.namespace
         /\ variables' = plain.variables
         /\ line_results' = plain.line_results
         /\ shown' = update_inline_results(plain.line_results))

\* C28: clear_variables, delete_variable of a stored name and edit_variable
\* with a text that evaluates leave the namespace, the variable store, the
\* line results and the displayed results as a plain recalculation of the
\* current document leaves them; delete_variable of a name that is not stored
\* and edit_variable with a text that does not evaluate change none of them
\* and run no pass
C28_RequestsEndAsPlainRecalculation ==
    [][/\ Called("clear_variables") => AsPlainRecalculation
       /\ Called("delete_variable") =>
             IF last'.arg \in DOMAIN variables THEN AsPlainRecalculation ELSE Rejected
       /\ Called("edit_variable") =>
             IF EvalLine(last'.text, base_namespace).ok THEN AsPlainRecalculation
             ELSE Rejected]_vars

\* delete_variable("y") returned with y in the store again, bound by the
\* document's line y = x + 3
C28_Witness ==
    /\ last.op = "delete_variable" /\ last.arg = "y" /\ last.ran
    /\ "y" \in DOMAIN variables /\ variables["y"] = IntVal(5)

\* the records of the calls of add_calculation a pass with this trace makes
RECURSIVE CallsOf(_)
CallsOf(trace) ==
    IF trace = <<>> THEN <<>>
    ELSE (IF Head(trace).recorded
          THEN <<[expression |-> Head(trace).code, result |-> format_result(Head(trace).val),
                  timestamp |-> NoTimestamp]>>
          ELSE <<>>) \o CallsOf(Tail(trace))

\* the last n elements of the sequence s
LastOf(s, n) == IF Len(s) <= n THEN s ELSE SubSeq(s, Len(s) - n + 1, Len(s))

\* C29: the panel holds 100 records at most; its records and its list items
\* are as many and in the same order, each item the text of its record; a
\* pass appends its calls and takes nothing away but the oldest records, as
\* many as go beyond 100; only clear_history empties the panel; a pass of
\* src/old/calculator.py over the text of the pass before it appends the
\* records that pass appended
C29_HistoryKeepsLast100 ==
    /\ [](Len(history_widget.history) <= 100)
    /\ [](/\ Len(history_widget.history_list) = Len(history_widget.history)
          /\ \A k \in 1..Len(history_widget.history) :
                 history_widget.history_list[k] =
                     str(history_widget.history[k].expression) \o " = "
                         \o history_widget.history[k].result)
    /\ [][IF last'.op = "clear_history" THEN history_widget'.history = <<>>
          ELSE IF last'.ran
          THEN /\ history_widget'.history =
                      LastOf(history_widget.history \o CallsOf(lastPass'.trace), 100)
               /\ lastPass'.repeat /\ lastPass.valid
                      => CallsOf(lastPass'.trace) = CallsOf(lastPass.trace)
               /\ tree = "old" => Len(CallsOf(lastPass'.trace)) = Len(lastPass'.text)
          ELSE history_widget' = history_widget]_vars

\* the panel was full, a pass over "x = 2" added the 101st record, and the
\* record of 1 + 1, the oldest, is the one that is gone
C29_Witness ==
    /\ Len(history_widget.history) = 100
    /\ history_widget.history[100].expression = <<"x", " ", "=", " ", "2">>
    /\ history_widget.history[1].expression = <<"0">>
    /\ history_widget.history[99].expression = <<"0">>

(***************************************************************************)
(* The one debounce timer of all the editors                               *)
(***************************************************************************)
\* the text of the editor was edited in the step before
EditedNow(editor) == last.op = "edit" /\ current = editor

\* the pass that ran last ran over the text the editor holds
RecalculatedOverText(editor) ==
    /\ lastPass.valid /\ lastPass.editor = editor
    /\ lastPass.text = TextOf(editor)

\* C30: every edit of an editor is followed by a pass over that editor's
\* text as it then is, so that once the edits stop every edited document was
\* recalculated over its final text, also when another editor is edited
\* before the timer of the first one times out
C30_EveryEditedDocumentRecalculated ==
    \A editor \in EditorIds : EditedNow(editor) ~> RecalculatedOverText(editor)

\* an edit, of whichever editor, leaves one pending timer, that of the
\* editor edited: the timer an edit of another editor started is stopped
C30_EditLeavesOneTimer ==
    [][edits' # edits => timer' = {[editor |-> current', remaining |-> Delay]}]_vars

\* the timer serves the editor edited last: its timeout runs the pass over
\* that editor's text
C30_LastEditedIsRecalculated ==
    \A editor \in EditorIds :
        (timer = {[editor |-> editor, remaining |-> Delay]})
            ~> (timer = {} \/ RecalculatedOverText(editor))

====
